---- MODULE Spec2Model ----
(***************************************************************************)
(* Model of lib/bitcoin.py of counterpartyd: the JSON-RPC client (connect, *)
(* rpc), the Base58Check codec, the wire primitives (var_int, op_push),    *)
(* coin selection (get_inputs), the transaction assembler (transaction)    *)
(* and the serialiser (serialise).                                         *)
(*                                                                         *)
(* Bytes objects are sequences of 0..255.  Python str objects that the     *)
(* code indexes or iterates (addresses, hex strings) are sequences of      *)
(* ASCII codes.                                                            *)
(***************************************************************************)
EXTENDS Integers, Sequences, FiniteSets, TLC

\* ------------------------------------------------------------------------
\* Bounds of the model (not program constants).
\* ------------------------------------------------------------------------

\* Length in bytes of the hash carried by the model's addresses (20 on the
\* real network; base58_decode and serialise do not depend on the length).
HashLen == 2

\* Longest coin list a coin source returns.
MaxCoins == 2

\* Longest payload handed to the chunking on its own.
MaxPayload == 161

\* Threads that call rpc() concurrently.
NThreads == 3

\* Deepest nesting of rpc() inside rpc() (the -4 ownership probe) explored.
MaxDepth == 3

\* Largest fee a caller passes.
MaxFee == 1

\* ------------------------------------------------------------------------
\* Generic sequence helpers.
\* ------------------------------------------------------------------------

Range(f) == {f[i] : i \in DOMAIN f}

\* seq[::-1]
Reverse(seq) == [i \in 1..Len(seq) |-> seq[Len(seq) + 1 - i]]

\* n * bytes([b])
Repeat(b, n) == [i \in 1..n |-> b]

RECURSIVE Flatten(_)
Flatten(ss) == IF ss = <<>> THEN <<>> ELSE Head(ss) \o Flatten(Tail(ss))

RECURSIVE SumSeq(_)
SumSeq(s) == IF s = <<>> THEN 0 ELSE Head(s) + SumSeq(Tail(s))

\* Python slice s[a:b] with 0 <= a, b (0-based, end exclusive, clipped).
Slice(s, a, b) == SubSeq(s, a + 1, IF b > Len(s) THEN Len(s) ELSE b)

\* Python slice s[-k:] (the last k elements, or all of s when shorter).
LastK(s, k) == IF Len(s) <= k THEN s ELSE SubSeq(s, Len(s) - k + 1, Len(s))

\* Python slice s[a:-k].
SliceToMinus(s, a, k) == SubSeq(s, a + 1, Len(s) - k)

\* ------------------------------------------------------------------------
\* Constants of lib/bitcoin.py.
\* ------------------------------------------------------------------------

OP_RETURN == 106
OP_DUP == 118
OP_HASH160 == 169
OP_EQUALVERIFY == 136
OP_CHECKSIG == 172
OP_1 == 81
OP_2 == 82
OP_CHECKMULTISIG == 174

\* '123456789ABCDEFGHJKLMNPQRSTUVWXYZabcdefghijkmnopqrstuvwxyz'
b58_digits ==
  << 49, 50, 51, 52, 53, 54, 55, 56, 57, 65, 66, 67, 68, 69, 70, 71, 72, 74,
     75, 76, 77, 78, 80, 81, 82, 83, 84, 85, 86, 87, 88, 89, 90, 97, 98, 99,
     100, 101, 102, 103, 104, 105, 106, 107, 109, 110, 111, 112, 113, 114,
     115, 116, 117, 118, 119, 120, 121, 122 >>

\* connect(): TRIES = 12 attempts, time.sleep(5) after each failed one.
TRIES == 12
SLEEP_SECONDS == 5

\* transaction(): chunk sizes of the two embedding modes (33 - 1 and 80).
MULTISIG_CHUNK == 32
OP_RETURN_CHUNK == 80

\* ------------------------------------------------------------------------
\* Values of lib/config.py (the module is not part of the sources at hand;
\* the amounts are scaled down, only their order relative to the amounts a
\* caller passes matters).
\* ------------------------------------------------------------------------

REGULAR_DUST_SIZE == 3
MULTISIG_DUST_SIZE == 2
OP_RETURN_VALUE == 1

\* config.ADDRESSVERSION: one byte, b'\x00' on mainnet, b'\x6f' on testnet.
ADDRESSVERSION(testnet) == IF testnet THEN <<111>> ELSE <<0>>

\* ------------------------------------------------------------------------
\* Integers to bytes.
\* ------------------------------------------------------------------------

\* (i).to_bytes(k, byteorder='little'); defined for 0 <= i < 256^k.
RECURSIVE to_bytes(_, _)
to_bytes(i, k) ==
  IF k = 0 THEN <<>> ELSE <<i % 256>> \o to_bytes(i \div 256, k - 1)

\* int.from_bytes(b, byteorder='little').
RECURSIVE from_bytes(_)
from_bytes(b) ==
  IF b = <<>> THEN 0 ELSE Head(b) + 256 * from_bytes(Tail(b))

\* def var_int (i).  The test i <= 0xffffffff is written on i \div 2^16, which
\* is the same test on integers and stays inside TLC's 32-bit range.
var_int(i) ==
  IF i < 253 THEN to_bytes(i, 1)
  ELSE IF i <= 65535 THEN <<253>> \o to_bytes(i, 2)
  ELSE IF i \div 65536 <= 65535 THEN <<254>> \o to_bytes(i, 4)
  ELSE <<255>> \o to_bytes(i, 8)

\* def op_push (i)
op_push(i) ==
  IF i < 76 THEN to_bytes(i, 1)
  ELSE IF i <= 255 THEN <<76>> \o to_bytes(i, 1)
  ELSE IF i <= 65535 THEN <<77>> \o to_bytes(i, 2)
  ELSE <<78>> \o to_bytes(i, 4)

\* ------------------------------------------------------------------------
\* Base58Check.
\* ------------------------------------------------------------------------

\* dhash = lambda x: sha256(sha256(x).digest()).digest().  SHA-256 itself is
\* a library function; the model uses a 32-byte digest computed from every
\* byte of x and its position, which keeps what the codec relies on: the
\* digest is a function of x, and changing x changes it (up to collisions).
RECURSIVE DigestAcc(_, _)
DigestAcc(x, acc) ==
  IF x = <<>> THEN acc
  ELSE DigestAcc(Tail(x), (acc * 31 + Head(x) + 7) % 65521)

dhash(x) ==
  LET a == DigestAcc(x, 1 + Len(x))
  IN [i \in 1..32 |-> ((a \div 7) * i + a + i) % 256]

\* Arbitrary-precision naturals as base-256 digit sequences, least
\* significant digit first, without high zero digits (0 is <<>>).
RECURSIVE MulAdd(_, _, _)
MulAdd(n, m, c) ==
  IF n = <<>>
    THEN IF c = 0 THEN <<>> ELSE <<c % 256>> \o MulAdd(<<>>, m, c \div 256)
    ELSE LET v == Head(n) * m + c
         IN <<v % 256>> \o MulAdd(Tail(n), m, v \div 256)

\* Drop the high zero digits of a little-endian digit sequence.
RECURSIVE Normalise(_)
Normalise(n) ==
  IF n = <<>> THEN <<>>
  ELSE IF n[Len(n)] = 0 THEN Normalise(SubSeq(n, 1, Len(n) - 1))
  ELSE n

\* divmod(n, m) on a big-endian digit sequence: <<quotient digits, r>>.
RECURSIVE DivModBE(_, _, _)
DivModBE(be, m, r) ==
  IF be = <<>> THEN <<<<>>, r>>
  ELSE LET cur == r * 256 + Head(be)
           rest == DivModBE(Tail(be), m, cur % m)
       IN <<(<<cur \div m>>) \o rest[1], rest[2]>>

\* b58_digits.index(c) (0-based); c must be in b58_digits.
B58Index(c) == (CHOOSE i \in DOMAIN b58_digits : b58_digits[i] = c) - 1

\* binascii.unhexlify of a str of hex digits (ASCII codes), two per byte.
HexVal(c) == IF c >= 97 THEN c - 87 ELSE IF c >= 65 THEN c - 55 ELSE c - 48

unhexlify(h) ==
  [i \in 1..(Len(h) \div 2) |-> HexVal(h[2 * i - 1]) * 16 + HexVal(h[2 * i])]

\* binascii.hexlify: two lower-case hex digits per byte.
HexDigit(v) == IF v < 10 THEN 48 + v ELSE 87 + v

hexlify(b) ==
  [i \in 1..(2 * Len(b)) |->
     IF i % 2 = 1 THEN HexDigit(b[(i + 1) \div 2] \div 16)
     ELSE HexDigit(b[i \div 2] % 16)]

\* The base58 digits of n (little-endian digit sequence), most significant
\* first: the loop "while n > 0: n, r = divmod(n, 58)" and res[::-1].
RECURSIVE B58Digits(_)
B58Digits(n) ==
  IF n = <<>> THEN <<>>
  ELSE LET qr == DivModBE(Reverse(n), 58, 0)
       IN B58Digits(Normalise(Reverse(qr[1]))) \o <<b58_digits[qr[2] + 1]>>

\* Number of leading elements of s equal to z ("for c in s: if c == z:
\* pad += 1 else: break").
RECURSIVE LeadingCount(_, _)
LeadingCount(s, z) ==
  IF s = <<>> \/ Head(s) # z THEN 0 ELSE 1 + LeadingCount(Tail(s), z)

\* base58_check_encode without the leading '1' for the leading zero bytes.
base58_check_encodeUnpadded(b, version) ==
  LET d == version \o unhexlify(b)
      address_hex == d \o SubSeq(dhash(d), 1, 4)
  IN B58Digits(Normalise(Reverse(address_hex)))

\* def base58_check_encode(b, version): b is a hex str, version one byte.
base58_check_encode(b, version) ==
  LET d == version \o unhexlify(b)
      address_hex == d \o SubSeq(dhash(d), 1, 4)
      n == Normalise(Reverse(address_hex))
      pad == LeadingCount(d, 0)
  IN Repeat(b58_digits[1], pad) \o B58Digits(n)

\* The first loop of base58_decode: the index of the first character that is
\* not a base58 digit (0 when there is none).
RECURSIVE FirstInvalid(_, _)
FirstInvalid(s, k) ==
  IF k > Len(s) THEN 0
  ELSE IF s[k] \notin Range(b58_digits) THEN k
  ELSE FirstInvalid(s, k + 1)

\* n = n * 58 + digit over the characters of s (all valid).
RECURSIVE B58ToInt(_, _)
B58ToInt(s, n) ==
  IF s = <<>> THEN n ELSE B58ToInt(Tail(s), MulAdd(n, 58, B58Index(Head(s))))

\* h = '%x' % n; if len(h) % 2: h = '0' + h; res = unhexlify(h): the
\* shortest big-endian byte string of n, one zero byte for n = 0.
IntToBytesBE(n) == IF n = <<>> THEN <<0>> ELSE Reverse(n)

\* def base58_decode (s, version).  The result is a record: err is "" and
\* data the returned bytes, or err names the exception raised.
base58_decode(s, version) ==
  IF FirstInvalid(s, 1) # 0
    THEN [err |-> "InvalidBase58Error", data |-> <<>>]
  ELSE
    LET res == IntToBytesBE(B58ToInt(s, <<>>))
        pad == LeadingCount(SubSeq(s, 1, Len(s) - 1), b58_digits[1])
        k == Flatten([i \in 1..pad |-> version]) \o res
        addrbyte == Slice(k, 0, 1)
        data == SliceToMinus(k, 1, 4)
        chk0 == LastK(k, 4)
        chk1 == SubSeq(dhash(addrbyte \o data), 1, 4)
    IN IF addrbyte # version
         THEN [err |-> "VersionByteError", data |-> <<>>]
       ELSE IF chk0 # chk1
         THEN [err |-> "Base58ChecksumError", data |-> <<>>]
       ELSE [err |-> "", data |-> data]

\* ------------------------------------------------------------------------
\* The values the model runs on.
\* ------------------------------------------------------------------------

\* Length in bytes of a transaction id (32 on the real network; serialise
\* writes whatever unhexlify(txid) gives).
TxidLen == 2

\* The hex str of HashLen bytes whose last byte is v and the others v0.
HashHex(v0, v) == hexlify(Repeat(v0, HashLen - 1) \o <<v>>)

\* Two well-formed addresses for each network.  The second mainnet hash
\* starts with a zero byte, so that its address starts with two '1'.
AddrA(testnet) == base58_check_encode(HashHex(171, 1), ADDRESSVERSION(testnet))
AddrB(testnet) == base58_check_encode(HashHex(0, 2), ADDRESSVERSION(testnet))

\* Malformed variants of an address: a character outside the alphabet ('0'),
\* the address of the other network, and a changed last character.
BadChar(a) == [a EXCEPT ![Len(a)] = 48]
BadChecksum(a) ==
  [a EXCEPT ![Len(a)] = IF a[Len(a)] = b58_digits[1] THEN b58_digits[2]
                        ELSE b58_digits[1]]

\* "No value" for a str parameter (None or '': both are falsy in Python).
NoAddress == <<>>

\* None for an integer parameter.
None == -1

Sources(testnet) ==
  { AddrA(testnet), AddrA(~testnet), BadChar(AddrA(testnet)),
    BadChecksum(AddrA(testnet)) }

Destinations(testnet) ==
  { NoAddress, AddrB(testnet), AddrB(~testnet), BadChar(AddrB(testnet)),
    BadChecksum(AddrB(testnet)) }

Amounts == { None, 0, MULTISIG_DUST_SIZE, REGULAR_DUST_SIZE }

\* Payloads: no data, one chunk in both modes, two disguised-multisig
\* chunks, and more than one OP_RETURN chunk.
PayloadLens == { 0, 5, MULTISIG_CHUNK + 1, OP_RETURN_CHUNK + 1 }
Payload(n) == [i \in 1..n |-> (i * 7 + n) % 256]

\* The multisig argument of transaction(): False, True, or a str holding a
\* public key.
MultisigValues == { "False", "True", "pubkey" }
IsStr(m) == m = "pubkey"
Truthy(m) == m # "False"

\* An unspent coin as listunspent reports it.  amount stands for
\* round(coin['amount'] * config.UNIT), the amount in the smallest unit.
Coin(n, address, amount) ==
  [ txid |-> hexlify(<<160 + n>> \o Repeat(n + 1, TxidLen - 1)), vout |-> n,
    address |-> address, amount |-> amount,
    scriptPubKey |-> hexlify(<<OP_DUP, n>>) ]

CoinPool(source, other) ==
  { Coin(0, source, 2), Coin(1, source, 7), Coin(2, other, 5),
    Coin(3, source, 0) }

RECURSIVE SeqsUpTo(_, _)
SeqsUpTo(S, n) ==
  IF n = 0 THEN {<<>>}
  ELSE LET shorter == SeqsUpTo(S, n - 1)
       IN shorter \cup
          { Append(q, c) : q \in {r \in shorter : Len(r) = n - 1},
                           c \in S }

\* The coin lists a coin source may return: coins of the pool, each at most
\* once.
CoinLists(source, other) ==
  { l \in SeqsUpTo(CoinPool(source, other), MaxCoins) :
      \A i, j \in DOMAIN l : i # j => l[i] # l[j] }

\* ------------------------------------------------------------------------
\* State.
\* ------------------------------------------------------------------------

VARIABLES
  config,           \* [TESTNET, UNITTEST]: config.TESTNET and
                    \* config.PREFIX == config.UNITTEST_PREFIX
  tx_info,          \* [source, destination, btc_amount, fee, data]
  multisig,         \* the multisig argument of transaction()
  unittest,         \* the unittest argument of transaction()
  pc,               \* position of the caller of rpc() / of transaction()
  btc_amount,       \* transaction(): btc_amount after the dust defaults
  data_array,       \* transaction(): the chunks of data
  total_btc_out,    \* transaction(): fee + data values + btc_amount
  listunspent,      \* get_inputs(): the coin list of the coin source,
                    \* bound once the list is read and until serialise()
                    \* is entered
  inputs,           \* get_inputs(): the selected coins
  total_btc_in,     \* get_inputs(): their total
  outputs,          \* [destination_output, data_output, change_output]
  s,                \* serialise(): the bytes assembled so far
  chunk_i,          \* serialise(): index of the next data chunk
  unsigned_tx_hex,  \* transaction(): the hex str returned
  request_session,  \* the module global request_session
  stack,            \* the active rpc() invocations, innermost last
  retval,           \* the value the last completed rpc() returned
  calls,            \* history: every rpc() invocation, in order
  served,           \* history: the last HTTP response received, with the
                    \* branch of rpc() that handled it
  outcome,          \* the exception raised, or the result returned
  threads,          \* concurrent callers of connect(): where each is
                    \* (at), the Session objects they have created
                    \* (created; the global holds the last one) and the
                    \* object each posted with last (used, 0 = none)
  prim              \* a codec or wire primitive called on its own: the
                    \* function the caller entered (fn), its arguments
                    \* (b, version, s, i), the exception it raised (err,
                    \* "" = none) and the value it returned (ret)

build_vars ==
  << btc_amount, data_array, total_btc_out, listunspent, inputs,
     total_btc_in, outputs, s, chunk_i, unsigned_tx_hex >>
input_vars == << config, tx_info, multisig, unittest >>
rpc_vars == << request_session, stack, retval, calls, served >>
vars == << input_vars, pc, build_vars, rpc_vars, outcome, threads, prim >>

\* ------------------------------------------------------------------------
\* The node, as the client sees it.
\* ------------------------------------------------------------------------

\* "result": null, and the shape of every result the client reads.
NullResult ==
  [ ismine |-> FALSE, coins |-> <<>>, compressed |-> FALSE,
    complete |-> FALSE, hex |-> <<>>, txid |-> <<>> ]

\* What a node makes of a transaction hex str: the hex str with the
\* signatures added, and the id of the transaction it broadcast.
SignedHex(tx_hex) == tx_hex \o hexlify(<<48>>)
TxidOf(tx_hex) == hexlify(SubSeq(dhash(unhexlify(tx_hex)), 1, TxidLen))

\* The results a node gives for a method.  The client reads ['ismine'] of a
\* validateaddress result, the list of a listunspent result, the WIF key
\* (compressed or not) of a dumpprivkey result, ['complete'] and ['hex'] of
\* a signrawtransaction result, and returns a sendrawtransaction result.
ResultsOf(method, params) ==
  CASE method = "validateaddress" ->
         { [NullResult EXCEPT !.ismine = b] : b \in BOOLEAN }
    [] method = "listunspent" ->
         { [NullResult EXCEPT !.coins = l] :
             l \in CoinLists(tx_info.source, AddrB(config.TESTNET)) }
    [] method = "dumpprivkey" ->
         { [NullResult EXCEPT !.compressed = b] : b \in BOOLEAN }
    [] method = "signrawtransaction" ->
         { [NullResult EXCEPT !.complete = TRUE, !.hex = SignedHex(params[1])],
           [NullResult EXCEPT !.complete = FALSE, !.hex = params[1]] }
    [] method = "sendrawtransaction" ->
         { [NullResult EXCEPT !.txid = TxidOf(params[1])] }
    [] OTHER -> { NullResult }

\* The "error" member of a response: absent or null, or an object with a
\* code (-5 RPC_INVALID_ADDRESS_OR_KEY, -4 RPC_WALLET_ERROR, -1 any other).
NoError == [present |-> FALSE, code |-> 0]
Errors == { NoError } \cup { [present |-> TRUE, code |-> c] : c \in {-5, -4, -1} }

Statuses == { 200, 500, 404 }

\* The HTTP responses a node may give to a request: any status with any
\* error member; a result only when there is no error.
Responses(method, params) ==
  { [status |-> st, error |-> e, result |-> r] :
      st \in Statuses, e \in Errors \ {NoError}, r \in {NullResult} }
  \cup
  { [status |-> st, error |-> NoError, result |-> r] :
      st \in Statuses, r \in ResultsOf(method, params) }

NoResponse == [status |-> 0, error |-> NoError, result |-> NullResult]

\* ------------------------------------------------------------------------
\* rpc() and connect().
\* ------------------------------------------------------------------------

\* One invocation of rpc().  at is "connect" inside connect(), "classify"
\* with the response in hand, "probe" while the nested validateaddress call
\* runs.  i and slept are connect()'s: the attempts that failed and the
\* time.sleep(5) calls made; they go when connect() returns a response.
\* sent counts the requests of this invocation that got an HTTP response.
Frame(method, params) ==
  [ method |-> method, params |-> params, at |-> "connect", i |-> 0,
    slept |-> 0, sent |-> 0, response |-> NoResponse ]

Top == stack[Len(stack)]

SetTop(f) == [stack EXCEPT ![Len(stack)] = f]

\* rpc(method, params) is entered: connect() creates the session if there is
\* none and starts its attempts.
Invoke(method, params) ==
  /\ stack' = Append(stack, Frame(method, params))
  /\ calls' = Append(calls, [method |-> method, params |-> params])
  /\ request_session' = "Session"
  /\ UNCHANGED << retval, served >>

\* What an exception carries: the rpc method and the work of its connect()
\* for the errors of rpc(), the address and the amounts in the message for
\* the errors of transaction().
NoDetail ==
  [ method |-> "", attempts |-> 0, seconds |-> 0, code |-> 0,
    address |-> <<>>, amounts |-> <<>> ]

\* An exception leaves rpc() or transaction(); nothing below the caller of
\* transaction() catches it.
Raise(kind, detail) ==
  /\ stack' = <<>>
  /\ outcome' = [kind |-> kind, detail |-> detail]
  /\ pc' = "done"

NoServed ==
  [ method |-> "", params |-> <<>>, status |-> 0, error |-> NoError,
    depth |-> 0, verdict |-> "" ]

\* The caller of rpc() has taken the returned value.
Taken ==
  /\ retval' = NullResult
  /\ served' = NoServed
  /\ UNCHANGED << request_session, stack, calls >>

\* Classify reading the error member before the status.
ClassifyErrorFirst(method, params, response) ==
  IF ~response.error.present
    THEN IF response.status \notin {200, 500} THEN "HttpError" ELSE "result"
  ELSE IF response.error.code = -5 THEN "AddressIndexingError"
  ELSE IF response.error.code = -4 THEN "probe"
  ELSE IF response.status \notin {200, 500} THEN "HttpError"
  ELSE "NodeError"

\* The branch of rpc() (lines 122-151) that handles a response.
Classify(method, params, response) ==
  IF response.status \notin {200, 500} THEN "HttpError"
  ELSE IF ~response.error.present THEN "result"
  ELSE IF response.error.code = -5 THEN "AddressIndexingError"
  ELSE IF response.error.code = -4 THEN "probe"
  ELSE "NodeError"

\* connect(): request_session.post raises ConnectionError; the attempt is
\* counted, the message printed and the thread sleeps five seconds.
ConnectFail ==
  /\ stack # <<>>
  /\ Top.at = "connect"
  /\ Top.i < TRIES
  /\ stack' = SetTop([Top EXCEPT !.i = @ + 1, !.slept = @ + 1])
  /\ UNCHANGED << input_vars, prim, threads, pc, build_vars, request_session, retval,
                  calls, served, outcome >>

\* connect(): request_session.post returns a response, which connect()
\* returns at once.  A -4 answer to a nested call is explored only while the
\* nesting is below MaxDepth.
ConnectResponse ==
  /\ stack # <<>>
  /\ Top.at = "connect"
  /\ Top.i < TRIES
  /\ \E r \in Responses(Top.method, Top.params) :
       /\ (r.error.code = -4 /\ Top.params # <<>>) => Len(stack) < MaxDepth
       /\ stack' = SetTop([Top EXCEPT !.at = "classify", !.sent = @ + 1,
                                      !.response = r, !.i = 0, !.slept = 0])
  /\ UNCHANGED << input_vars, prim, threads, pc, build_vars, request_session, retval,
                  calls, served, outcome >>

\* ConnectExhausted with the loop one attempt short.
ConnectExhaustedEarly ==
  /\ stack # <<>>
  /\ Top.at = "connect"
  /\ Top.i >= TRIES - 1
  /\ Raise("NodeUnreachable",
           [NoDetail EXCEPT !.method = Top.method, !.attempts = Top.i,
                            !.seconds = Top.slept * SLEEP_SECONDS])
  /\ UNCHANGED << input_vars, prim, threads, build_vars, request_session, retval, calls,
                  served >>

\* connect(): the loop ends after TRIES failures and connect() returns
\* None; rpc() raises BitcoindRPCError('Cannot communicate with Bitcoind.').
ConnectExhausted ==
  /\ stack # <<>>
  /\ Top.at = "connect"
  /\ Top.i >= TRIES
  /\ Raise("NodeUnreachable",
           [NoDetail EXCEPT !.method = Top.method, !.attempts = Top.i,
                            !.seconds = Top.slept * SLEEP_SECONDS])
  /\ UNCHANGED << input_vars, prim, threads, build_vars, request_session, retval, calls,
                  served >>

\* What rpc() does with the response in hand.
Handle(verdict) ==
  LET f == Top
      entry == [ method |-> f.method, params |-> f.params,
                 status |-> f.response.status, error |-> f.response.error,
                 depth |-> Len(stack), verdict |-> verdict ]
      detail == [ NoDetail EXCEPT
                    !.method = f.method,
                    !.code = IF verdict = "HttpError" THEN f.response.status
                             ELSE f.response.error.code ]
  IN /\ served' = entry
     /\ CASE verdict = "result" ->
               \* return response_json['result']
               /\ stack' = SubSeq(stack, 1, Len(stack) - 1)
               /\ retval' = f.response.result
               /\ UNCHANGED << pc, outcome, calls, request_session >>
          [] verdict = "probe" /\ f.params = <<>> ->
               \* address = params[0] raises IndexError
               /\ Raise("IndexError", detail)
               /\ UNCHANGED << retval, calls, request_session >>
          [] verdict = "probe" /\ f.params # <<>> ->
               \* address = params[0]; rpc('validateaddress', [address])
               /\ stack' = Append(SetTop([f EXCEPT !.at = "probe"]),
                                  Frame("validateaddress", <<f.params[1]>>))
               /\ calls' = Append(calls, [method |-> "validateaddress",
                                          params |-> <<f.params[1]>>])
               /\ request_session' = "Session"
               /\ UNCHANGED << pc, outcome, retval >>
          [] OTHER ->
               \* raise BitcoindRPCError / BitcoindError
               /\ Raise(verdict, detail)
               /\ UNCHANGED << retval, calls, request_session >>

RpcClassify ==
  /\ stack # <<>>
  /\ Top.at = "classify"
  /\ Handle(Classify(Top.method, Top.params, Top.response))
  /\ UNCHANGED << input_vars, prim, threads, build_vars >>

\* The nested validateaddress call has returned: rpc() raises 'Wallet is
\* locked.' if ['ismine'] is true and 'Source address not in wallet.' if not.
RpcProbeReturn ==
  /\ stack # <<>>
  /\ Top.at = "probe"
  /\ Raise(IF retval.ismine THEN "WalletLocked" ELSE "AddressNotOwned",
           [NoDetail EXCEPT !.method = Top.method, !.code = -4])
  /\ UNCHANGED << input_vars, prim, threads, build_vars, request_session, retval, calls,
                  served >>

\* ------------------------------------------------------------------------
\* serialise(): the pieces of the byte string.
\* ------------------------------------------------------------------------

\* An optional (address, value) or (data_array, value) tuple: None, or the
\* tuple.  A tuple is truthy whatever it holds.
NoOutput == [present |-> FALSE, address |-> <<>>, data_array |-> <<>>, value |-> 0]
AddressOutput(address, value) ==
  [present |-> TRUE, address |-> address, data_array |-> <<>>, value |-> value]
DataOutput(chunks, value) ==
  [present |-> TRUE, address |-> <<>>, data_array |-> chunks, value |-> value]

\* SerialiseInput writing output index 0 for every coin.
SerialiseInputFirstVout(txin) ==
  Reverse(unhexlify(txin.txid)) \o to_bytes(0, 4)
    \o var_int(Len(txin.scriptPubKey)) \o txin.scriptPubKey
    \o <<255, 255, 255, 255>>

\* SerialiseInput with the txid in the order of its hex str.
SerialiseInputForward(txin) ==
  unhexlify(txin.txid) \o to_bytes(txin.vout, 4)
    \o var_int(Len(txin.scriptPubKey)) \o txin.scriptPubKey
    \o <<255, 255, 255, 255>>

\* Lines 236-243: one input.  str.encode of the scriptPubKey hex str is its
\* ASCII codes.
SerialiseInput(txin) ==
  Reverse(unhexlify(txin.txid)) \o to_bytes(txin.vout, 4)
    \o var_int(Len(txin.scriptPubKey)) \o txin.scriptPubKey
    \o <<255, 255, 255, 255>>

\* OutputCount leaving out a destination or change output of value zero.
OutputCountNonZero(destination_output, data_output, change_output) ==
  (IF destination_output.present /\ destination_output.value # 0 THEN 1 ELSE 0)
  + (IF data_output.present THEN Len(data_output.data_array) ELSE 0)
  + (IF change_output.present /\ change_output.value # 0 THEN 1 ELSE 0)

\* Lines 246-254: the number of outputs.
OutputCount(destination_output, data_output, change_output) ==
  (IF destination_output.present THEN 1 ELSE 0)
  + (IF data_output.present THEN Len(data_output.data_array) ELSE 0)
  + (IF change_output.present THEN 1 ELSE 0)

\* Lines 229-254: version, inputs, number of outputs.
SerialiseHead(ins, destination_output, data_output, change_output) ==
  to_bytes(1, 4) \o var_int(Len(ins))
    \o Flatten([i \in DOMAIN ins |-> SerialiseInput(ins[i])])
    \o var_int(OutputCount(destination_output, data_output, change_output))

\* Lines 258-268 and 312-322: a pay-to-pubkey-hash output.
AddressOutputBytes(output, version) ==
  LET pubkeyhash == base58_decode(output.address, version).data
      script == <<OP_DUP, OP_HASH160>> \o op_push(20) \o pubkeyhash
                  \o <<OP_EQUALVERIFY, OP_CHECKSIG>>
  IN to_bytes(output.value, 8) \o var_int(Len(script)) \o script

\* DataPubkey without the length byte, padded to the 33 bytes.
DataPubkeyUnprefixed(data_chunk) ==
  data_chunk \o Repeat(0, 33 - Len(data_chunk))

\* Lines 292-294: the data chunk as a fake public key.
DataPubkey(data_chunk) ==
  <<Len(data_chunk)>> \o data_chunk \o Repeat(0, 33 - 1 - Len(data_chunk))

\* Lines 296-302 and 304-306: the script of a data output.
DataScript(data_chunk, is_multisig, source_pubkey) ==
  IF is_multisig
    THEN <<OP_1>> \o op_push(Len(source_pubkey)) \o source_pubkey
           \o op_push(Len(DataPubkey(data_chunk))) \o DataPubkey(data_chunk)
           \o <<OP_2, OP_CHECKMULTISIG>>
    ELSE <<OP_RETURN>> \o op_push(Len(data_chunk)) \o data_chunk

\* Lines 272-308: one data output.
DataOutputBytes(data_chunk, value, is_multisig, source_pubkey) ==
  LET script == DataScript(data_chunk, is_multisig, source_pubkey)
  IN to_bytes(value, 8) \o var_int(Len(script)) \o script

\* The public keys the library calls give: public_pair_to_sec of the parsed
\* str (always compressed), and of the key derived from a WIF private key
\* (33 bytes compressed, 65 bytes not).
PubkeyOfString == <<2>> \o Repeat(17, 32)
PubkeyOfWif(compressed) ==
  IF compressed THEN <<3>> \o Repeat(34, 32) ELSE <<4>> \o Repeat(34, 64)

\* ------------------------------------------------------------------------
\* get_inputs() and the pure steps of transaction().
\* ------------------------------------------------------------------------

\* chunks yielding the chunks of full size only.
RECURSIVE chunksFull(_, _)
chunksFull(l, n) ==
  IF Len(l) < n THEN <<>>
  ELSE <<SubSeq(l, 1, n)>> \o chunksFull(SubSeq(l, n + 1, Len(l)), n)

\* chunks(l, n): successive n-sized chunks of l.
RECURSIVE chunks(_, _)
chunks(l, n) ==
  IF l = <<>> THEN <<>>
  ELSE <<SubSeq(l, 1, IF Len(l) < n THEN Len(l) ELSE n)>>
         \o chunks(SubSeq(l, n + 1, Len(l)), n)

\* The local listunspent of get_inputs() before it is assigned.
Unbound == [bound |-> FALSE, coins |-> <<>>]

\* Unspent without the test of the coin's address.
UnspentAll(coins, source) == coins

\* Line 340: the coins of the list whose address is source.
RECURSIVE Unspent(_, _)
Unspent(coins, source) ==
  IF coins = <<>> THEN <<>>
  ELSE (IF Head(coins).address = source THEN <<Head(coins)>> ELSE <<>>)
         \o Unspent(Tail(coins), source)

\* SelectLoop returning what it has taken when the coins run out.
RECURSIVE SelectLoopTakeAll(_, _, _, _)
SelectLoopTakeAll(unspent, ins, total_in, total_out) ==
  IF unspent = <<>>
    THEN [found |-> ins # <<>>, inputs |-> ins, total_btc_in |-> total_in]
  ELSE LET coin == Head(unspent)
           ins2 == Append(ins, coin)
           total2 == total_in + coin.amount
       IN IF total2 >= total_out
            THEN [found |-> TRUE, inputs |-> ins2, total_btc_in |-> total2]
            ELSE SelectLoopTakeAll(Tail(unspent), ins2, total2, total_out)

\* Lines 341-347: the loop over unspent, having taken the coins ins with
\* total total_in.  The result is [found, inputs, total_btc_in]; found is
\* false for (None, None).
RECURSIVE SelectLoop(_, _, _, _)
SelectLoop(unspent, ins, total_in, total_out) ==
  IF unspent = <<>>
    THEN [found |-> FALSE, inputs |-> <<>>, total_btc_in |-> 0]
  ELSE LET coin == Head(unspent)
           ins2 == Append(ins, coin)
           total2 == total_in + coin.amount
       IN IF total2 >= total_out
            THEN [found |-> TRUE, inputs |-> ins2, total_btc_in |-> total2]
            ELSE SelectLoop(Tail(unspent), ins2, total2, total_out)

Select(coins, source, total_out) ==
  SelectLoop(Unspent(coins, source), <<>>, 0, total_out)

\* DustCheck with the regular floor in every mode.
DustCheckOneFloor(destination, amount, m) ==
  IF destination # NoAddress
    THEN IF (IF amount = None THEN REGULAR_DUST_SIZE ELSE amount)
              >= REGULAR_DUST_SIZE
           THEN "" ELSE "DustError"
    ELSE IF amount = None \/ amount = 0 THEN "" ELSE "AssertionError"

\* Lines 370-380: the dust check.  "" when it passes, else the exception.
DustCheck(destination, amount, m) ==
  IF destination # NoAddress
    THEN IF Truthy(m)
           THEN IF (IF amount = None THEN MULTISIG_DUST_SIZE ELSE amount)
                     >= MULTISIG_DUST_SIZE
                  THEN "" ELSE "DustError"
           ELSE IF (IF amount = None THEN REGULAR_DUST_SIZE ELSE amount)
                     >= REGULAR_DUST_SIZE
                  THEN "" ELSE "DustError"
    ELSE IF amount = None \/ amount = 0 THEN "" ELSE "AssertionError"

\* btc_amount after lines 372 and 376.
DustDefault(destination, amount, m) ==
  IF destination # NoAddress /\ amount = None
    THEN IF Truthy(m) THEN MULTISIG_DUST_SIZE ELSE REGULAR_DUST_SIZE
    ELSE amount

\* Lines 383-394: data_array.
DataArray(data, m) ==
  IF data # <<>>
    THEN IF Truthy(m) THEN chunks(data, MULTISIG_CHUNK)
         ELSE chunks(data, OP_RETURN_CHUNK)
    ELSE <<>>

\* Lines 398-399: data_value.
DataValue(m) == IF Truthy(m) THEN MULTISIG_DUST_SIZE ELSE OP_RETURN_VALUE

\* TotalOut without the values of the data outputs.
TotalOutNoData(fee, chunk_list, m, destination, amount) ==
  fee + (IF destination # NoAddress THEN amount ELSE 0)

\* Lines 397-401: total_btc_out.
TotalOut(fee, chunk_list, m, destination, amount) ==
  fee + Len(chunk_list) * DataValue(m)
    + (IF destination # NoAddress THEN amount ELSE 0)

\* Lines 409-415: the three outputs.
Outputs(source, destination, amount, data, chunk_list, m, total_in, total_out) ==
  [ destination_output |->
      IF destination # NoAddress THEN AddressOutput(destination, amount)
      ELSE NoOutput,
    data_output |->
      IF data # <<>> THEN DataOutput(chunk_list, DataValue(m)) ELSE NoOutput,
    change_output |->
      IF total_in - total_out # 0
        THEN AddressOutput(source, total_in - total_out)
      ELSE NoOutput ]

\* ------------------------------------------------------------------------
\* transaction().
\* ------------------------------------------------------------------------

\* Line 353: if config.PREFIX == config.UNITTEST_PREFIX: unittest = True.
UnitTest == unittest \/ config.UNITTEST

Version == ADDRESSVERSION(config.TESTNET)

\* An exception leaves transaction() outside rpc().
Fail(kind, address, amounts) ==
  /\ outcome' = [kind |-> kind,
                 detail |-> [NoDetail EXCEPT !.address = address,
                                             !.amounts = amounts]]
  /\ pc' = "done"

\* Validate checking the source only.
ValidateSourceOnly ==
  /\ pc = "start"
  /\ IF base58_decode(tx_info.source, Version).err # ""
       THEN Fail("InvalidAddressError", tx_info.source, <<>>)
       ELSE pc' = "check_mine" /\ UNCHANGED outcome
  /\ UNCHANGED << input_vars, prim, threads, build_vars, rpc_vars >>

\* Lines 355-362: validate the addresses, source first.
Validate ==
  /\ pc = "start"
  /\ LET bad(a) == a # NoAddress /\ base58_decode(a, Version).err # ""
     IN IF bad(tx_info.source)
          THEN Fail("InvalidAddressError", tx_info.source, <<>>)
        ELSE IF bad(tx_info.destination)
          THEN Fail("InvalidAddressError", tx_info.destination, <<>>)
        ELSE pc' = "check_mine" /\ UNCHANGED outcome
  /\ UNCHANGED << input_vars, prim, threads, build_vars, rpc_vars >>

\* Lines 365-366: ask the node whether the source is in the wallet, unless
\* in unittest mode or given a public key str.
CheckMine ==
  /\ pc = "check_mine"
  /\ IF ~UnitTest /\ ~IsStr(multisig)
       THEN /\ Invoke("validateaddress", <<tx_info.source>>)
            /\ pc' = "check_mine_ret"
       ELSE /\ pc' = "dust"
            /\ UNCHANGED rpc_vars
  /\ UNCHANGED << input_vars, prim, threads, build_vars, outcome >>

\* Lines 366-367: ['ismine'] of the answer.
CheckMineReturn ==
  /\ pc = "check_mine_ret"
  /\ stack = <<>>
  /\ IF ~retval.ismine
       THEN Fail("NotInWallet", tx_info.source, <<>>)
       ELSE pc' = "dust" /\ UNCHANGED outcome
  /\ Taken
  /\ UNCHANGED << input_vars, prim, threads, build_vars >>

\* Prepare without the assertion on the number of OP_RETURN chunks.
PrepareUnchecked ==
  /\ pc = "dust"
  /\ LET check == DustCheck(tx_info.destination, tx_info.btc_amount, multisig)
         amount == DustDefault(tx_info.destination, tx_info.btc_amount, multisig)
         array == DataArray(tx_info.data, multisig)
     IN IF check # ""
          THEN /\ Fail(check, tx_info.destination, <<>>)
               /\ UNCHANGED build_vars
        ELSE /\ btc_amount' = amount
             /\ data_array' = array
             /\ total_btc_out' = TotalOut(tx_info.fee, array, multisig,
                                          tx_info.destination, amount)
             /\ pc' = "get_inputs"
             /\ UNCHANGED << listunspent, inputs, total_btc_in, outputs, s,
                             chunk_i, unsigned_tx_hex, outcome >>
  /\ UNCHANGED << input_vars, prim, threads, rpc_vars >>

\* Lines 369-401: the dust check, the chunks and the total.  The assertion
\* of line 392 allows one OP_RETURN chunk only.
Prepare ==
  /\ pc = "dust"
  /\ LET check == DustCheck(tx_info.destination, tx_info.btc_amount, multisig)
         amount == DustDefault(tx_info.destination, tx_info.btc_amount, multisig)
         array == DataArray(tx_info.data, multisig)
     IN IF check # ""
          THEN /\ Fail(check, tx_info.destination, <<>>)
               /\ UNCHANGED build_vars
        ELSE IF tx_info.data # <<>> /\ ~Truthy(multisig) /\ Len(array) # 1
          THEN /\ Fail("AssertionError", <<>>, <<>>)
               /\ UNCHANGED build_vars
        ELSE /\ btc_amount' = amount
             /\ data_array' = array
             /\ total_btc_out' = TotalOut(tx_info.fee, array, multisig,
                                          tx_info.destination, amount)
             /\ pc' = "get_inputs"
             /\ UNCHANGED << listunspent, inputs, total_btc_in, outputs, s,
                             chunk_i, unsigned_tx_hex, outcome >>
  /\ UNCHANGED << input_vars, prim, threads, rpc_vars >>

\* Lines 340-347 and 404-406: select the coins from a coin list; without
\* inputs transaction() raises BalanceError, whose message holds the source
\* and total_btc_out.
SelectFrom(coins) ==
  LET sel == Select(coins, tx_info.source, total_btc_out)
  IN /\ listunspent' = [bound |-> TRUE, coins |-> coins]
     /\ IF ~sel.found
          THEN /\ Fail("BalanceError", tx_info.source, <<total_btc_out>>)
               /\ UNCHANGED << inputs, total_btc_in >>
          ELSE /\ inputs' = sel.inputs
               /\ total_btc_in' = sel.total_btc_in
               /\ pc' = "serialise"
               /\ UNCHANGED outcome
     /\ UNCHANGED << btc_amount, data_array, total_btc_out, outputs, s,
                     chunk_i, unsigned_tx_hex >>

\* Lines 329-338: get_inputs() asks the node whether the source is in the
\* wallet; in unittest mode it reads the coin list from a file.
GetInputs ==
  /\ pc = "get_inputs"
  /\ IF ~UnitTest
       THEN /\ Invoke("validateaddress", <<tx_info.source>>)
            /\ pc' = "get_inputs_mine"
            /\ UNCHANGED << build_vars, outcome >>
       ELSE /\ \E coins \in CoinLists(tx_info.source, AddrB(config.TESTNET)) :
                 SelectFrom(coins)
            /\ UNCHANGED rpc_vars
  /\ UNCHANGED << input_vars, prim, threads >>

\* Lines 330-334: a source in the wallet is looked up with listunspent.  For
\* any other source get_inputs() refuses on testnet, and otherwise reads the
\* name address, which is no variable of get_inputs() nor of the module.
GetInputsMine ==
  /\ pc = "get_inputs_mine"
  /\ stack = <<>>
  /\ IF retval.ismine
       THEN /\ Invoke("listunspent", <<>>)
            /\ pc' = "get_inputs_list"
            /\ UNCHANGED outcome
       ELSE /\ Fail(IF config.TESTNET THEN "TestnetUnsupported"
                    ELSE "NameError", <<>>, <<>>)
            /\ Taken
  /\ UNCHANGED << input_vars, prim, threads, build_vars >>

\* Line 331: the list returned by listunspent.
GetInputsList ==
  /\ pc = "get_inputs_list"
  /\ stack = <<>>
  /\ SelectFrom(retval.coins)
  /\ Taken
  /\ UNCHANGED << input_vars, prim, threads >>

\* Lines 409-418 and 229-268: the outputs are built and serialise() writes
\* the version, the inputs, the number of outputs and the destination
\* output.
SerialiseBegin ==
  /\ pc = "serialise"
  /\ LET outs == Outputs(tx_info.source, tx_info.destination, btc_amount,
                         tx_info.data, data_array, multisig, total_btc_in,
                         total_btc_out)
     IN /\ outputs' = outs
        /\ s' = SerialiseHead(inputs, outs.destination_output,
                              outs.data_output, outs.change_output)
                  \o (IF outs.destination_output.present
                        THEN AddressOutputBytes(outs.destination_output, Version)
                        ELSE <<>>)
  /\ chunk_i' = 1
  /\ listunspent' = Unbound
  /\ pc' = "data"
  /\ UNCHANGED << input_vars, prim, threads, btc_amount, data_array, total_btc_out,
                  inputs, total_btc_in, unsigned_tx_hex, rpc_vars, outcome >>

\* SerialiseChunks with the chunks taken last first.
SerialiseChunksReversed ==
  IF outputs.data_output.present
    THEN Reverse(outputs.data_output.data_array) ELSE <<>>

\* The list serialise() iterates at line 271.
SerialiseChunks ==
  IF outputs.data_output.present THEN outputs.data_output.data_array ELSE <<>>

AppendChunk(source_pubkey) ==
  /\ s' = s \o DataOutputBytes(SerialiseChunks[chunk_i],
                               outputs.data_output.value, Truthy(multisig),
                               source_pubkey)
  /\ chunk_i' = chunk_i + 1
  /\ pc' = "data"

\* SerialiseData fetching the key from the node in every multisig mode.
SerialiseDataAsks ==
  /\ pc = "data"
  /\ chunk_i <= Len(SerialiseChunks)
  /\ IF Truthy(multisig) /\ ~config.UNITTEST
       THEN /\ Invoke("dumpprivkey", <<tx_info.source>>)
            /\ pc' = "data_key"
            /\ UNCHANGED << s, chunk_i >>
       ELSE /\ AppendChunk(IF IsStr(multisig) THEN PubkeyOfString
                           ELSE PubkeyOfWif(TRUE))
            /\ UNCHANGED rpc_vars
  /\ UNCHANGED << input_vars, prim, threads, btc_amount, data_array, total_btc_out,
                  listunspent, inputs, total_btc_in, outputs,
                  unsigned_tx_hex, outcome >>

\* Lines 271-308: the next data output.  With multisig = True the private
\* key of the source is fetched from the node for every chunk, except under
\* the unittest prefix.
SerialiseData ==
  /\ pc = "data"
  /\ chunk_i <= Len(SerialiseChunks)
  /\ IF Truthy(multisig) /\ ~IsStr(multisig) /\ ~config.UNITTEST
       THEN /\ Invoke("dumpprivkey", <<tx_info.source>>)
            /\ pc' = "data_key"
            /\ UNCHANGED << s, chunk_i >>
       ELSE /\ AppendChunk(IF IsStr(multisig) THEN PubkeyOfString
                           ELSE PubkeyOfWif(TRUE))
            /\ UNCHANGED rpc_vars
  /\ UNCHANGED << input_vars, prim, threads, btc_amount, data_array, total_btc_out,
                  listunspent, inputs, total_btc_in, outputs,
                  unsigned_tx_hex, outcome >>

\* Lines 284-308: dumpprivkey has returned the key.
SerialiseDataKey ==
  /\ pc = "data_key"
  /\ stack = <<>>
  /\ AppendChunk(PubkeyOfWif(retval.compressed))
  /\ Taken
  /\ UNCHANGED << input_vars, prim, threads, btc_amount, data_array, total_btc_out,
                  listunspent, inputs, total_btc_in, outputs,
                  unsigned_tx_hex, outcome >>

\* Lines 310-325 and 419-420: the change output, the lock time, and the hex
\* str transaction() returns.
SerialiseEnd ==
  /\ pc = "data"
  /\ chunk_i > Len(SerialiseChunks)
  /\ LET transaction ==
           s \o (IF outputs.change_output.present
                   THEN AddressOutputBytes(outputs.change_output, Version)
                   ELSE <<>>)
             \o to_bytes(0, 4)
     IN /\ s' = transaction
        /\ unsigned_tx_hex' = hexlify(transaction)
  /\ outcome' = [kind |-> "ok", detail |-> NoDetail]
  /\ pc' = "done"
  /\ UNCHANGED << input_vars, prim, threads, btc_amount, data_array, total_btc_out,
                  listunspent, inputs, total_btc_in, outputs, chunk_i,
                  rpc_vars >>

\* ------------------------------------------------------------------------
\* Specification of one build.
\* ------------------------------------------------------------------------

NoOutcome == [kind |-> "none", detail |-> NoDetail]

\* No thread is inside connect() and no Session object exists.
NoThreads ==
  [ at |-> [t \in 1..NThreads |-> "idle"],
    used |-> [t \in 1..NThreads |-> 0],
    created |-> 0 ]

\* No primitive has been called on its own.
NoPrim ==
  [ fn |-> "", b |-> <<>>, version |-> <<>>, s |-> <<>>, i |-> <<>>,
    err |-> "", ret |-> <<>> ]

InitLocals ==
  /\ btc_amount = None
  /\ data_array = <<>>
  /\ total_btc_out = 0
  /\ listunspent = Unbound
  /\ inputs = <<>>
  /\ total_btc_in = 0
  /\ outputs = [destination_output |-> NoOutput, data_output |-> NoOutput,
                change_output |-> NoOutput]
  /\ s = <<>>
  /\ chunk_i = 0
  /\ unsigned_tx_hex = <<>>
  /\ request_session = "None"
  /\ stack = <<>>
  /\ retval = NullResult
  /\ calls = <<>>
  /\ served = NoServed
  /\ outcome = NoOutcome
  /\ threads = NoThreads
  /\ prim = NoPrim

\* The builds explored.  The longest payload is there for the one-chunk
\* assertion of OP_RETURN mode; in the multisig modes the payload of two
\* chunks is the longest.
Init ==
  /\ config \in [TESTNET : BOOLEAN, UNITTEST : BOOLEAN]
  /\ \E src \in Sources(config.TESTNET),
        dst \in Destinations(config.TESTNET),
        amt \in Amounts, fee \in 0..MaxFee, n \in PayloadLens :
       /\ tx_info = [ source |-> src, destination |-> dst,
                      btc_amount |-> amt, fee |-> fee, data |-> Payload(n) ]
       /\ multisig \in MultisigValues
       /\ unittest \in BOOLEAN
       /\ n > 2 * MULTISIG_CHUNK => multisig = "False"
  /\ pc = "start"
  /\ InitLocals

Next ==
  \/ Validate
  \/ CheckMine
  \/ CheckMineReturn
  \/ Prepare
  \/ GetInputs
  \/ GetInputsMine
  \/ GetInputsList
  \/ SerialiseBegin
  \/ SerialiseData
  \/ SerialiseDataKey
  \/ SerialiseEnd
  \/ ConnectFail
  \/ ConnectResponse
  \/ ConnectExhausted
  \/ RpcClassify
  \/ RpcProbeReturn

Spec == Init /\ [][Next]_vars

\* ------------------------------------------------------------------------
\* Specification of one rpc() call made on its own.
\* ------------------------------------------------------------------------

\* The calls lib/bitcoin.py makes: is_mine / transaction / get_inputs,
\* get_inputs, serialise, get_block_count, transmit.
RpcCalls ==
  { [method |-> "validateaddress", params |-> <<AddrA(config.TESTNET)>>],
    [method |-> "validateaddress", params |-> <<AddrB(config.TESTNET)>>],
    [method |-> "listunspent", params |-> <<>>],
    [method |-> "dumpprivkey", params |-> <<AddrA(config.TESTNET)>>],
    [method |-> "getblockcount", params |-> <<>>],
    [method |-> "signrawtransaction", params |-> <<hexlify(to_bytes(1, 4))>>],
    [method |-> "sendrawtransaction", params |-> <<hexlify(to_bytes(1, 4))>>] }

\* A caller invokes rpc(method, params).
CallRpc ==
  /\ pc = "call"
  /\ \E c \in RpcCalls : Invoke(c.method, c.params)
  /\ pc' = "rpc"
  /\ UNCHANGED << input_vars, prim, threads, build_vars, outcome >>

\* rpc() has returned response_json['result'] to that caller.
CallReturn ==
  /\ pc = "rpc"
  /\ stack = <<>>
  /\ outcome' = [kind |-> "result", detail |-> NoDetail]
  /\ pc' = "done"
  /\ UNCHANGED << input_vars, prim, threads, build_vars, rpc_vars >>

InitRpc ==
  /\ config \in [TESTNET : BOOLEAN, UNITTEST : {FALSE}]
  /\ tx_info = [ source |-> AddrA(config.TESTNET), destination |-> NoAddress,
                 btc_amount |-> None, fee |-> 0, data |-> <<>> ]
  /\ multisig = "False"
  /\ unittest = FALSE
  /\ pc = "call"
  /\ InitLocals

NextRpc ==
  \/ CallRpc
  \/ ConnectFail
  \/ ConnectResponse
  \/ ConnectExhausted
  \/ RpcClassify
  \/ RpcProbeReturn
  \/ CallReturn

SpecRpc == InitRpc /\ [][NextRpc]_vars

\* ------------------------------------------------------------------------
\* Reading a serialised transaction back (the inverse of the wire layout).
\* ------------------------------------------------------------------------

\* A var_int at position pos of b: its value and the position after it.
ReadVarInt(b, pos) ==
  LET width == CASE b[pos] < 253 -> 0 [] b[pos] = 253 -> 2
                 [] b[pos] = 254 -> 4 [] OTHER -> 8
  IN [ value |-> IF width = 0 THEN b[pos]
                 ELSE from_bytes(SubSeq(b, pos + 1, pos + width)),
       next |-> pos + 1 + width ]

\* A script push at position pos: the length pushed and where its bytes
\* start.
ReadPush(script, pos) ==
  LET width == CASE script[pos] < 76 -> 0 [] script[pos] = 76 -> 1
                 [] script[pos] = 77 -> 2 [] OTHER -> 4
  IN [ len |-> IF width = 0 THEN script[pos]
               ELSE from_bytes(SubSeq(script, pos + 1, pos + width)),
       next |-> pos + 1 + width ]

\* n inputs from position pos: reversed txid, vout, script, sequence.
RECURSIVE ReadInputs(_, _, _)
ReadInputs(b, pos, n) ==
  IF n = 0 THEN [items |-> <<>>, next |-> pos]
  ELSE LET len == ReadVarInt(b, pos + TxidLen + 4)
           item == [ txid |-> hexlify(Reverse(SubSeq(b, pos, pos + TxidLen - 1))),
                     vout |-> from_bytes(SubSeq(b, pos + TxidLen,
                                                pos + TxidLen + 3)),
                     script |-> SubSeq(b, len.next, len.next + len.value - 1),
                     sequence |-> SubSeq(b, len.next + len.value,
                                         len.next + len.value + 3) ]
           rest == ReadInputs(b, len.next + len.value + 4, n - 1)
       IN [items |-> <<item>> \o rest.items, next |-> rest.next]

\* n outputs from position pos: value, script.
RECURSIVE ReadOutputs(_, _, _)
ReadOutputs(b, pos, n) ==
  IF n = 0 THEN [items |-> <<>>, next |-> pos]
  ELSE LET len == ReadVarInt(b, pos + 8)
           item == [ value |-> from_bytes(SubSeq(b, pos, pos + 7)),
                     script |-> SubSeq(b, len.next, len.next + len.value - 1) ]
           rest == ReadOutputs(b, len.next + len.value, n - 1)
       IN [items |-> <<item>> \o rest.items, next |-> rest.next]

ReadTx(b) ==
  LET n_in == ReadVarInt(b, 5)
      ins == ReadInputs(b, n_in.next, n_in.value)
      n_out == ReadVarInt(b, ins.next)
      outs == ReadOutputs(b, n_out.next, n_out.value)
  IN [ version |-> from_bytes(SubSeq(b, 1, 4)), inputs |-> ins.items,
       outputs |-> outs.items,
       locktime |-> SubSeq(b, outs.next, Len(b)) ]

\* What an output's script says: an address output with the hash it pays
\* to, or a data output with the chunk it carries.
ReadOutput(o) ==
  LET script == o.script
  IN IF script[1] = OP_DUP /\ script[2] = OP_HASH160
       THEN [ kind |-> "address", value |-> o.value,
              payload |-> SubSeq(script, 4, Len(script) - 2) ]
     ELSE IF script[1] = OP_RETURN
       THEN LET push == ReadPush(script, 2)
            IN [ kind |-> "data", value |-> o.value,
                 payload |-> SubSeq(script, push.next,
                                    push.next + push.len - 1) ]
     ELSE LET key == ReadPush(script, 2)
              fake == ReadPush(script, key.next + key.len)
          IN [ kind |-> "data", value |-> o.value,
               payload |-> SubSeq(script, fake.next + 1,
                                  fake.next + script[fake.next]) ]

ReadOutputsOf(b) ==
  LET outs == ReadTx(b).outputs IN [i \in DOMAIN outs |-> ReadOutput(outs[i])]

Built == pc = "done" /\ outcome.kind = "ok"

\* The hash an address of the build's network stands for.
HashOf(address) == base58_decode(address, Version).data

\* ------------------------------------------------------------------------
\* C1.  Order of the outputs.
\* ------------------------------------------------------------------------

InputAmounts == [i \in DOMAIN inputs |-> inputs[i].amount]

\* C1: the outputs of every built transaction, read back from its bytes,
\* are the destination output first (if a destination was given), then one
\* data output per chunk whose chunks concatenate to the payload in order,
\* then the change output last (if the inputs exceed what is required).
OutputOrder ==
  Built =>
    LET outs == ReadOutputsOf(s)
        d == IF tx_info.destination # NoAddress THEN 1 ELSE 0
        c == IF SumSeq(InputAmounts) > total_btc_out THEN 1 ELSE 0
        n == Len(outs) - d - c
    IN /\ n >= 0
       /\ (tx_info.data = <<>>) <=> (n = 0)
       /\ d = 1 => /\ outs[1].kind = "address"
                   /\ outs[1].payload = HashOf(tx_info.destination)
                   /\ outs[1].value = btc_amount
       /\ \A k \in 1..n : /\ outs[d + k].kind = "data"
                          /\ outs[d + k].payload # <<>>
       /\ Flatten([k \in 1..n |-> outs[d + k].payload]) = tx_info.data
       /\ c = 1 => /\ outs[Len(outs)].kind = "address"
                   /\ outs[Len(outs)].payload = HashOf(tx_info.source)

\* A transaction with the three kinds of output and two data chunks.
OutputOrderWitness ==
  /\ Built
  /\ tx_info.destination # NoAddress
  /\ Len(data_array) = 2
  /\ outputs.change_output.present
  /\ Len(ReadOutputsOf(s)) = 4

\* ------------------------------------------------------------------------
\* C2.  Coin selection.
\* ------------------------------------------------------------------------

\* The coins of the looked-up list that the source owns, in list order.
Owned ==
  SelectSeq(listunspent.coins, LAMBDA coin : coin.address = tx_info.source)

PrefixSum(k) == SumSeq([i \in 1..k |-> Owned[i].amount])

\* get_inputs() has returned coins and serialise() is not yet entered.
Selected == pc = "serialise"

\* C2 as stated: the inputs are the shortest prefix of the owned coins, the
\* empty one included, whose amounts sum to total_btc_out or more, and
\* total_btc_in is that sum.
ShortestPrefix ==
  Selected =>
    \E k \in 0..Len(Owned) :
      /\ inputs = SubSeq(Owned, 1, k)
      /\ total_btc_in = PrefixSum(k)
      /\ PrefixSum(k) >= total_btc_out
      /\ \A j \in 0..(k - 1) : PrefixSum(j) < total_btc_out

\* C2, amended: the inputs are the shortest non-empty prefix of the owned
\* coins, in list order, whose amounts sum to total_btc_out or more, and
\* total_btc_in is that sum; get_inputs() returns no coins only when no
\* non-empty prefix reaches total_btc_out.
ShortestNonEmptyPrefix ==
  /\ Selected =>
       \E k \in 1..Len(Owned) :
         /\ inputs = SubSeq(Owned, 1, k)
         /\ total_btc_in = PrefixSum(k)
         /\ PrefixSum(k) >= total_btc_out
         /\ \A j \in 1..(k - 1) : PrefixSum(j) < total_btc_out
  /\ (pc = "done" /\ outcome.kind = "BalanceError") =>
       \A k \in 1..Len(Owned) : PrefixSum(k) < total_btc_out

\* The first of two owned coins is enough: the second one is left out.
ShortestPrefixWitness ==
  /\ Selected
  /\ Len(Owned) = 2
  /\ Len(inputs) = 1
  /\ total_btc_out > 0

\* ------------------------------------------------------------------------
\* C3.  Insufficient funds.
\* ------------------------------------------------------------------------

CoinLookup == [method |-> "listunspent", params |-> <<>>]

\* The coin list has been read and the owned coins fall short.
Shortfall == listunspent.bound /\ PrefixSum(Len(Owned)) < total_btc_out

\* The build has failed with BalanceError, has produced no transaction, and
\* the coin lookup is the last call made to the node.
FailedUnfunded ==
  /\ pc = "done"
  /\ outcome.kind = "BalanceError"
  /\ s = <<>>
  /\ unsigned_tx_hex = <<>>
  /\ stack = <<>>
  /\ calls # <<>> => calls[Len(calls)] = CoinLookup

ChangeBalances ==
  Built =>
    LET outs == ReadOutputsOf(s)
        values == [i \in DOMAIN outs |-> outs[i].value]
        n == Cardinality({i \in DOMAIN outs : outs[i].kind = "data"})
        embed == IF Truthy(multisig) THEN MULTISIG_DUST_SIZE
                 ELSE OP_RETURN_VALUE
        amount == IF tx_info.destination = NoAddress THEN 0
                  ELSE IF tx_info.btc_amount # None THEN tx_info.btc_amount
                  ELSE IF Truthy(multisig) THEN MULTISIG_DUST_SIZE
                  ELSE REGULAR_DUST_SIZE
        required == tx_info.fee + n * embed + amount
        change == SumSeq(InputAmounts) - required
    IN /\ total_btc_in = SumSeq(InputAmounts)
       /\ outputs.change_output.present <=> change > 0
       /\ change >= 0
       /\ change > 0 => /\ outs[Len(outs)].kind = "address"
                        /\ outs[Len(outs)].value = change
                        /\ outs[Len(outs)].payload = HashOf(tx_info.source)
       /\ Len(outs) = (IF amount > 0 THEN 1 ELSE 0) + n
                        + (IF change > 0 THEN 1 ELSE 0)
       /\ SumSeq(values) + tx_info.fee = SumSeq(InputAmounts)
       /\ \A i \in DOMAIN values : values[i] >= 0

\* A transaction with a fee, a destination, data and change.
ChangeWitness ==
  /\ Built
  /\ tx_info.fee > 0
  /\ tx_info.destination # NoAddress
  /\ data_array # <<>>
  /\ outputs.change_output.present

\* ------------------------------------------------------------------------
\* C5.  Dust.
\* ------------------------------------------------------------------------

DustFloor == IF Truthy(multisig) THEN MULTISIG_DUST_SIZE ELSE REGULAR_DUST_SIZE

BelowFloor ==
  /\ tx_info.destination # NoAddress
  /\ tx_info.btc_amount # None
  /\ tx_info.btc_amount < DustFloor

OwnershipCheck == [method |-> "validateaddress", params |-> <<tx_info.source>>]

RpcErrors ==
  { "NodeUnreachable", "HttpError", "AddressIndexingError", "NodeError",
    "WalletLocked", "AddressNotOwned", "IndexError" }

Malformed(a) == a # NoAddress /\ base58_decode(a, Version).err # ""

\* C6: a build whose source or destination fails base58_decode ends with
\* InvalidAddressError in its first step: no call to the node, no coin
\* lookup or selection, no byte serialised.
MalformedRejected ==
  (Malformed(tx_info.source) \/ Malformed(tx_info.destination)) =>
    /\ pc \in {"start", "done"}
    /\ pc = "done" =>
         /\ outcome.kind = "InvalidAddressError"
         /\ outcome.detail.address =
              IF Malformed(tx_info.source) THEN tx_info.source
              ELSE tx_info.destination
    /\ calls = <<>>
    /\ request_session = "None"
    /\ ~listunspent.bound
    /\ inputs = <<>>
    /\ s = <<>>
    /\ unsigned_tx_hex = <<>>

\* A well-formed source with a destination of the other network, rejected.
MalformedWitness ==
  /\ pc = "done"
  /\ outcome.kind = "InvalidAddressError"
  /\ ~Malformed(tx_info.source)
  /\ base58_decode(tx_info.destination, Version).err = "VersionByteError"

\* ------------------------------------------------------------------------
\* C7.  Retry exhaustion.
\* ------------------------------------------------------------------------

\* C7: a call whose every connection attempt fails makes exactly 12
\* attempts, sleeps 5 seconds after each failed one, and only then raises
\* NodeUnreachable: no invocation counts a 13th failure, each failure is
\* followed by one sleep, and the error comes after 12 attempts and 60
\* seconds of sleep.
RetryExhaustion ==
  /\ \A n \in DOMAIN stack :
       /\ stack[n].i <= 12
       /\ stack[n].slept = stack[n].i
  /\ outcome.kind = "NodeUnreachable" =>
       /\ pc = "done"
       /\ outcome.detail.attempts = 12
       /\ outcome.detail.seconds = 60
       /\ stack = <<>>

\* The call gave up without any response having been received.
RetryExhaustionWitness ==
  /\ outcome.kind = "NodeUnreachable"
  /\ outcome.detail.attempts = 12
  /\ Len(calls) = 1
  /\ served = NoServed

\* ------------------------------------------------------------------------
\* C8.  No request is sent twice.
\* ------------------------------------------------------------------------

\* C8 as stated: within one call of rpc() every invocation gets at most one
\* HTTP response, and once a request has got its response no nested
\* invocation sends the same method with the same parameters again.
NoResend ==
  /\ \A n \in DOMAIN stack : stack[n].sent <= 1
  /\ \A m, n \in DOMAIN stack :
       (m < n /\ stack[m].sent >= 1 /\ stack[n].sent >= 1) =>
         ~(/\ stack[n].method = stack[m].method
           /\ stack[n].params = stack[m].params)

\* ------------------------------------------------------------------------
\* C9.  Classification of a response.
\* ------------------------------------------------------------------------

\* C9: the response rpc() handled last got exactly one outcome, decided in
\* this order: status outside {200, 500} -> HttpError; no error -> the
\* result is returned; code -5 -> AddressIndexingError; code -4 -> the
\* ownership probe; any other code -> NodeError with the node's code.  A
\* status 500 with an error is never a success, and what the caller gets is
\* the outcome of the response handled last.
ClassifiedInOrder ==
  /\ served.verdict # "" =>
       /\ served.status \notin {200, 500} <=> served.verdict = "HttpError"
       /\ served.status \in {200, 500} =>
            /\ ~served.error.present <=> served.verdict = "result"
            /\ served.error.present =>
                 /\ served.error.code = -5 <=>
                      served.verdict = "AddressIndexingError"
                 /\ served.error.code = -4 <=> served.verdict = "probe"
                 /\ served.error.code \notin {-5, -4} <=>
                      served.verdict = "NodeError"
       /\ (served.status = 500 /\ served.error.present) =>
            served.verdict # "result"
  /\ outcome.kind \in {"HttpError", "AddressIndexingError", "NodeError"} =>
       /\ served.verdict = outcome.kind
       /\ outcome.detail.code = IF outcome.kind = "HttpError"
                                  THEN served.status
                                  ELSE served.error.code
  /\ outcome.kind = "result" =>
       /\ served.verdict = "result"
       /\ served.depth = 1
       /\ ~served.error.present

\* A status 500 with an error code that is neither -5 nor -4.
ClassifiedWitness ==
  /\ pc = "done"
  /\ served.status = 500
  /\ served.error.present
  /\ served.error.code = -1
  /\ outcome.kind = "NodeError"

\* ------------------------------------------------------------------------
\* C10.  The answer -4.
\* ------------------------------------------------------------------------

\* The call, now over, received error code -4.
GotWalletError ==
  /\ pc = "done"
  /\ Len(calls) > 1 \/ served.verdict = "probe"

\* C10 as stated: a call that received error code -4 made exactly one
\* follow-up request, validateaddress of its first parameter, and failed
\* with WalletLocked or AddressNotOwned.
ProbeResolves ==
  GotWalletError =>
    /\ outcome.kind \in {"WalletLocked", "AddressNotOwned"}
    /\ Len(calls) = 2
    /\ calls[1].params # <<>>
    /\ calls[2] = [ method |-> "validateaddress",
                    params |-> <<calls[1].params[1]>> ]

\* ------------------------------------------------------------------------
\* C11.  Termination of a call.
\* ------------------------------------------------------------------------

\* C11 as stated: a call ends after a bounded number of requests to the
\* node whatever the node answers: its own request and, after a -4, the one
\* ownership probe, whose own answer (an error included) ends the call.
BoundedRequests ==
  /\ Len(calls) <= 2
  /\ Len(stack) <= 2

\* ------------------------------------------------------------------------
\* C12.  Retrieval of the private key.
\* ------------------------------------------------------------------------

\* C12 as stated: dumpprivkey is requested for the source address only, only
\* with multisig set and no public key str supplied, only in a build that
\* carries data, and only after a validateaddress of the source made earlier
\* in the same build, which the build passes only on ismine = true.
KeyRetrievalGuarded ==
  \A n \in DOMAIN calls :
    calls[n].method = "dumpprivkey" =>
      /\ calls[n].params = <<tx_info.source>>
      /\ Truthy(multisig)
      /\ ~IsStr(multisig)
      /\ tx_info.data # <<>>
      /\ \E m \in 1..(n - 1) : calls[m] = OwnershipCheck

\* ------------------------------------------------------------------------
\* Specification of connect() entered by several threads.  Each step is one
\* read or one write of the global request_session; nothing in the module
\* holds a lock around them.
\* ------------------------------------------------------------------------

\* A thread calls rpc(), which enters connect() (lines 121, 78-79).
ThreadEnter(t) ==
  /\ threads.at[t] = "idle"
  /\ threads' = [threads EXCEPT !.at[t] = "test"]
  /\ UNCHANGED << input_vars, prim, pc, build_vars, rpc_vars, outcome >>

\* Line 80, the test: if not request_session.
ThreadTest(t) ==
  /\ threads.at[t] = "test"
  /\ threads' = [threads EXCEPT
                   !.at[t] = IF request_session = "None" THEN "create"
                             ELSE "post"]
  /\ UNCHANGED << input_vars, prim, pc, build_vars, rpc_vars, outcome >>

\* Line 80, the assignment: request_session = requests.Session().
ThreadCreate(t) ==
  /\ threads.at[t] = "create"
  /\ request_session' = "Session"
  /\ threads' = [threads EXCEPT !.at[t] = "post", !.created = @ + 1]
  /\ UNCHANGED << input_vars, prim, pc, build_vars, stack, retval, calls,
                  served, outcome >>

\* Line 84: request_session.post(...) on the object the global holds now;
\* connect() returns and so does rpc().
ThreadPost(t) ==
  /\ threads.at[t] = "post"
  /\ threads' = [threads EXCEPT !.at[t] = "idle", !.used[t] = threads.created]
  /\ UNCHANGED << input_vars, prim, pc, build_vars, rpc_vars, outcome >>

InitThreads ==
  /\ config \in [TESTNET : BOOLEAN, UNITTEST : {FALSE}]
  /\ tx_info = [ source |-> AddrA(config.TESTNET), destination |-> NoAddress,
                 btc_amount |-> None, fee |-> 0, data |-> <<>> ]
  /\ multisig = "False"
  /\ unittest = FALSE
  /\ pc = "threads"
  /\ InitLocals

NextThreads ==
  \/ \E t \in 1..NThreads : ThreadEnter(t)
  \/ \E t \in 1..NThreads : ThreadTest(t)
  \/ \E t \in 1..NThreads : ThreadCreate(t)
  \/ \E t \in 1..NThreads : ThreadPost(t)

SpecThreads == InitThreads /\ [][NextThreads]_vars

\* ------------------------------------------------------------------------
\* C13.  The session handle.
\* ------------------------------------------------------------------------

\* C13 as stated: whatever the interleaving of the threads, at most one
\* Session object is ever created and every post of every thread goes
\* through that one object.
OneSession ==
  /\ threads.created <= 1
  /\ \A t \in 1..NThreads : threads.used[t] \in {0, 1}

\* ------------------------------------------------------------------------
\* Specification of the chunking of a payload on its own (lines 382-391).
\* ------------------------------------------------------------------------

\* data_array = list(chunks(data, n)) with the n of the mode.
Chunk ==
  /\ pc = "chunk"
  /\ data_array' = DataArray(tx_info.data, multisig)
  /\ pc' = "chunked"
  /\ UNCHANGED << input_vars, prim, threads, btc_amount, total_btc_out,
                  listunspent, inputs, total_btc_in, outputs, s, chunk_i,
                  unsigned_tx_hex, rpc_vars, outcome >>

InitChunks ==
  /\ config \in [TESTNET : BOOLEAN, UNITTEST : {FALSE}]
  /\ \E n \in 0..MaxPayload :
       tx_info = [ source |-> AddrA(config.TESTNET), destination |-> NoAddress,
                   btc_amount |-> None, fee |-> 0, data |-> Payload(n) ]
  /\ multisig \in MultisigValues
  /\ unittest = FALSE
  /\ pc = "chunk"
  /\ InitLocals

NextChunks == Chunk

SpecChunks == InitChunks /\ [][NextChunks]_vars

\* ------------------------------------------------------------------------
\* C14.  Chunking.
\* ------------------------------------------------------------------------

\* C14: the chunks of a non-empty payload are non-empty, at most 80 bytes
\* long in OP_RETURN mode and 32 in the multisig modes, all of that size
\* except possibly the last, and byte k of chunk i is byte (i-1)*size + k of
\* the payload, the lengths adding up to the payload's: nothing is dropped,
\* duplicated, reordered or padded.
ChunksPartition ==
  (pc = "chunked" /\ tx_info.data # <<>>) =>
    LET size == IF multisig = "False" THEN 80 ELSE 32
        n == Len(data_array)
    IN /\ n > 0
       /\ \A i \in 1..n :
            /\ Len(data_array[i]) > 0
            /\ Len(data_array[i]) <= size
            /\ i < n => Len(data_array[i]) = size
            /\ \A k \in 1..Len(data_array[i]) :
                 data_array[i][k] = tx_info.data[(i - 1) * size + k]
       /\ (n - 1) * size + Len(data_array[n]) = Len(tx_info.data)

\* Three multisig chunks, the last one of a single byte.
ChunksWitness ==
  /\ pc = "chunked"
  /\ multisig = "True"
  /\ Len(data_array) = 3
  /\ Len(data_array[3]) = 1

\* ------------------------------------------------------------------------
\* C15.  One OP_RETURN output.
\* ------------------------------------------------------------------------

\* The build is in OP_RETURN mode with a payload of more than 80 bytes.
Oversize == multisig = "False" /\ Len(tx_info.data) > 80

\* C15: an OP_RETURN build with a payload of more than 80 bytes never gets
\* past the chunking: no coin is looked up, no byte is serialised, and it
\* ends with the assertion failure on the number of chunks unless the address
\* validation, the ownership check or the dust check fails before; so a
\* built OP_RETURN transaction has no data output when there is no payload
\* and otherwise exactly one, which carries the whole payload.
OversizeRejected ==
  /\ Oversize =>
       /\ pc \in {"start", "check_mine", "check_mine_ret", "dust", "done"}
       /\ pc = "done" =>
            outcome.kind \in
              {"AssertionError", "InvalidAddressError", "NotInWallet",
               "DustError"} \cup RpcErrors
       /\ ~listunspent.bound
       /\ inputs = <<>>
       /\ s = <<>>
       /\ unsigned_tx_hex = <<>>
  /\ (pc = "done" /\ outcome.kind = "AssertionError"
        /\ tx_info.destination # NoAddress) => Oversize
  /\ (Built /\ multisig = "False") =>
       LET outs == ReadOutputsOf(s)
           data == {i \in DOMAIN outs : outs[i].kind = "data"}
       IN /\ Cardinality(data) = IF tx_info.data = <<>> THEN 0 ELSE 1
          /\ \A i \in data : outs[i].payload = tx_info.data

\* The build has failed on the assertion with a payload of 81 bytes.
OversizeWitness ==
  /\ Oversize
  /\ pc = "done"
  /\ outcome.kind = "AssertionError"
  /\ tx_info.destination # NoAddress
  /\ calls # <<>>

\* ------------------------------------------------------------------------
\* C16.  The data public key.
\* ------------------------------------------------------------------------

\* The second key pushed by the script of the n-th output of the bytes b.
FakeKey(b, n) ==
  LET script == ReadTx(b).outputs[n].script
      key == ReadPush(script, 2)
      fake == ReadPush(script, key.next + key.len)
  IN SubSeq(script, fake.next, fake.next + fake.len - 1)

BuiltOutputs ==
  (IF outputs.destination_output.present
     THEN << [ kind |-> "address", value |-> outputs.destination_output.value,
               payload |-> HashOf(outputs.destination_output.address) ] >>
     ELSE <<>>)
  \o (IF outputs.data_output.present
        THEN [ k \in DOMAIN outputs.data_output.data_array |->
                 [ kind |-> "data", value |-> outputs.data_output.value,
                   payload |-> outputs.data_output.data_array[k] ] ]
        ELSE <<>>)
  \o (IF outputs.change_output.present
        THEN << [ kind |-> "address", value |-> outputs.change_output.value,
                  payload |-> HashOf(outputs.change_output.address) ] >>
        ELSE <<>>)

\* C17: reading the bytes of a built transaction by the wire layout gives
\* version 1, the selected inputs in order (txid, output index, script,
\* sequence ffffffff), the outputs handed to serialise() in order (values,
\* hashes of the addresses, data chunks) and lock time 0 with no byte left
\* over; the hex str returned decodes to the same bytes.
ParseRecovers ==
  Built =>
    LET tx == ReadTx(s)
    IN /\ unhexlify(unsigned_tx_hex) = s
       /\ tx.version = 1
       /\ tx.locktime = <<0, 0, 0, 0>>
       /\ Len(tx.inputs) = Len(inputs)
       /\ \A i \in DOMAIN inputs :
            /\ tx.inputs[i].txid = inputs[i].txid
            /\ tx.inputs[i].vout = inputs[i].vout
            /\ tx.inputs[i].script = inputs[i].scriptPubKey
            /\ tx.inputs[i].sequence = <<255, 255, 255, 255>>
       /\ ReadOutputsOf(s) = BuiltOutputs

\* Two inputs and, in a multisig mode, a destination, two chunks and change.
ParseWitness ==
  /\ Built
  /\ Len(inputs) = 2
  /\ multisig = "True"
  /\ outputs.destination_output.present
  /\ Len(data_array) = 2
  /\ outputs.change_output.present

\* ------------------------------------------------------------------------
\* C18.  What serialise() depends on.
\* ------------------------------------------------------------------------

\* serialise() is running.
Serialising == pc \in {"data", "data_key"}

\* serialise() takes the source's key from the node: multisig is set, is no
\* public key str, and the prefix is not the unittest one.
KeyFromNode == Truthy(multisig) /\ ~IsStr(multisig) /\ ~config.UNITTEST

\* The bytes serialise() returns for the inputs and outputs handed to it
\* when the source key used for chunk k is keys[k].
Assembled(keys) ==
  SerialiseHead(inputs, outputs.destination_output, outputs.data_output,
                outputs.change_output)
    \o (IF outputs.destination_output.present
          THEN AddressOutputBytes(outputs.destination_output, Version)
          ELSE <<>>)
    \o Flatten([k \in DOMAIN keys |->
                  DataOutputBytes(SerialiseChunks[k],
                                  outputs.data_output.value,
                                  Truthy(multisig), keys[k])])
    \o (IF outputs.change_output.present
          THEN AddressOutputBytes(outputs.change_output, Version)
          ELSE <<>>)
    \o to_bytes(0, 4)

\* C18 as stated: while serialise() assembles the bytes no request to the
\* node is made or awaited.
SerialiseNoCall ==
  Serialising => (pc = "data" /\ stack = <<>>)

\* C18, amended: serialise() makes no call to the node except, when
\* multisig is set without a public key str (and outside the unittest
\* prefix), one dumpprivkey of the source per data chunk; the addresses it
\* decodes are well formed, so its Base58Check decoding never fails in a
\* build; and the bytes it returns are those determined by the inputs, the
\* outputs, the mode and, per chunk, the key the node returned.
SerialiseCalls ==
  /\ (Serialising /\ stack # <<>>) =>
       /\ KeyFromNode
       /\ stack[1].method = "dumpprivkey"
       /\ stack[1].params = <<tx_info.source>>
       /\ chunk_i <= Len(SerialiseChunks)
  /\ (Serialising /\ ~KeyFromNode) => (pc = "data" /\ stack = <<>>)
  /\ Serialising =>
       /\ outputs.destination_output.present =>
            base58_decode(outputs.destination_output.address, Version).err = ""
       /\ outputs.change_output.present =>
            base58_decode(outputs.change_output.address, Version).err = ""
  /\ Built =>
       \E keys \in [DOMAIN SerialiseChunks ->
                      IF KeyFromNode
                        THEN {PubkeyOfWif(TRUE), PubkeyOfWif(FALSE)}
                      ELSE IF IsStr(multisig) THEN {PubkeyOfString}
                      ELSE {PubkeyOfWif(TRUE)}] :
         s = Assembled(keys)

\* serialise() is waiting for the key of the second chunk.
SerialiseCallsWitness ==
  /\ pc = "data_key"
  /\ chunk_i = 2
  /\ stack # <<>>
  /\ Top.method = "dumpprivkey"

\* ------------------------------------------------------------------------
\* C19.  The coins of a build.
\* ------------------------------------------------------------------------

\* Position in the looked-up coin list of the n-th selected coin.
ListPosition(n) ==
  CHOOSE p \in DOMAIN listunspent.coins : listunspent.coins[p] = inputs[n]

\* C19: the selected coins are coins of the looked-up list, unchanged, owned
\* by the source, each list entry taken at most once and in list order; from
\* selection to the end of the build they stay coins of the coin source,
\* owned by the source and pairwise distinct; and the inputs read from the
\* built bytes carry their txid, output index and script, total_btc_in
\* being the sum of their amounts.
CoinsUntouched ==
  /\ Selected =>
       /\ \A n \in DOMAIN inputs :
            \E p \in DOMAIN listunspent.coins :
              listunspent.coins[p] = inputs[n]
       /\ \A m, n \in DOMAIN inputs :
            m < n => ListPosition(m) < ListPosition(n)
  /\ (Selected \/ Serialising \/ Built) =>
       /\ inputs # <<>>
       /\ \A n \in DOMAIN inputs :
            /\ inputs[n].address = tx_info.source
            /\ inputs[n] \in CoinPool(tx_info.source, AddrB(config.TESTNET))
       /\ \A m, n \in DOMAIN inputs : m # n => inputs[m] # inputs[n]
       /\ total_btc_in = SumSeq(InputAmounts)
  /\ Built =>
       LET ins == ReadTx(s).inputs
       IN /\ Len(ins) = Len(inputs)
          /\ \A n \in DOMAIN inputs :
               /\ ins[n].txid = inputs[n].txid
               /\ ins[n].vout = inputs[n].vout
               /\ ins[n].script = inputs[n].scriptPubKey

\* Both coins of a list of two were needed and were serialised in list
\* order.
CoinsWitness ==
  /\ Built
  /\ Len(inputs) = 2
  /\ inputs[2].vout = 1
  /\ tx_info.fee > 0

\* ------------------------------------------------------------------------
\* Specification of transmit() (lines 422-427).
\* ------------------------------------------------------------------------

\* Line 424: result = rpc('signrawtransaction', [unsigned_tx_hex]).
TransmitSign ==
  /\ pc = "transmit"
  /\ Invoke("signrawtransaction", <<unsigned_tx_hex>>)
  /\ pc' = "signed"
  /\ UNCHANGED << input_vars, prim, threads, build_vars, outcome >>

\* Lines 425-427: with result['complete'] the hex of the result is sent;
\* without it the function body ends and transmit() returns None.
TransmitSigned ==
  /\ pc = "signed"
  /\ stack = <<>>
  /\ IF retval.complete
       THEN /\ Invoke("sendrawtransaction", <<retval.hex>>)
            /\ pc' = "sent"
            /\ UNCHANGED outcome
       ELSE /\ outcome' = [kind |-> "None", detail |-> NoDetail]
            /\ pc' = "done"
            /\ UNCHANGED rpc_vars
  /\ UNCHANGED << input_vars, prim, threads, build_vars >>

\* Line 427: transmit() returns what sendrawtransaction returned.
TransmitSent ==
  /\ pc = "sent"
  /\ stack = <<>>
  /\ outcome' = [kind |-> "result", detail |-> NoDetail]
  /\ pc' = "done"
  /\ UNCHANGED << input_vars, prim, threads, build_vars, rpc_vars >>

InitTransmit ==
  /\ config \in [TESTNET : BOOLEAN, UNITTEST : {FALSE}]
  /\ tx_info = [ source |-> AddrA(config.TESTNET), destination |-> NoAddress,
                 btc_amount |-> None, fee |-> 0, data |-> <<>> ]
  /\ multisig = "False"
  /\ unittest = FALSE
  /\ pc = "transmit"
  /\ btc_amount = None
  /\ data_array = <<>>
  /\ total_btc_out = 0
  /\ listunspent = Unbound
  /\ inputs = <<>>
  /\ total_btc_in = 0
  /\ outputs = [destination_output |-> NoOutput, data_output |-> NoOutput,
                change_output |-> NoOutput]
  /\ s = <<>>
  /\ chunk_i = 0
  /\ unsigned_tx_hex \in {hexlify(to_bytes(1, 4)), hexlify(to_bytes(2, 4))}
  /\ request_session \in {"None", "Session"}
  /\ stack = <<>>
  /\ retval = NullResult
  /\ calls = <<>>
  /\ served = NoServed
  /\ outcome = NoOutcome
  /\ threads = NoThreads
  /\ prim = NoPrim

NextTransmit ==
  \/ TransmitSign
  \/ TransmitSigned
  \/ TransmitSent
  \/ ConnectFail
  \/ ConnectResponse
  \/ ConnectExhausted
  \/ RpcClassify
  \/ RpcProbeReturn

SpecTransmit == InitTransmit /\ [][NextTransmit]_vars

\* ------------------------------------------------------------------------
\* C20.  transmit().
\* ------------------------------------------------------------------------

\* C20 as stated: transmit() asks the node to sign the unsigned hex first
\* and to broadcast second, broadcasts only the hex a signing that reported
\* completion returned, and ends either returning the transaction id the
\* node gave or with an error of rpc(), never with neither.
TransmitReturnsOrRaises ==
  /\ calls # <<>> =>
       calls[1] = [ method |-> "signrawtransaction",
                    params |-> <<unsigned_tx_hex>> ]
  /\ \A n \in DOMAIN calls :
       calls[n].method = "sendrawtransaction" =>
         /\ n = 2
         /\ calls[n].params = <<SignedHex(unsigned_tx_hex)>>
  /\ pc = "done" =>
       \/ /\ outcome.kind = "result"
          /\ retval.txid = TxidOf(SignedHex(unsigned_tx_hex))
       \/ outcome.kind \in RpcErrors

\* ------------------------------------------------------------------------
\* Specification of the Base58Check codec called on its own (lines 153-206).
\* ------------------------------------------------------------------------

\* The two network version bytes.
Versions == { ADDRESSVERSION(t) : t \in BOOLEAN }

OtherVersion(version) == CHOOSE v \in Versions : v # version

\* The payloads encoded: every byte string of at most HashLen bytes over a
\* zero byte, a small byte, and two bytes with the high bit set.
PayloadBytes == { 0, 1, 171, 255 }
Payloads == SeqsUpTo(PayloadBytes, HashLen)

\* A str that base58_check_encode never returns: '1' followed by the base58
\* digits of payload || dhash(version || payload)[:4].
Prefixed(payload, version) ==
  LET tail == payload \o SubSeq(dhash(version \o payload), 1, 4)
  IN <<b58_digits[1]>> \o B58Digits(Normalise(Reverse(tail)))

\* The strs handed to base58_decode directly, for an expected version: the
\* addresses of the other network, addresses with a character outside the
\* alphabet or with a changed last character, '1'-prefixed strs, and short
\* strs (the empty one among them).
DecodeInputs(version) ==
  LET own == { base58_check_encode(hexlify(p), version) : p \in Payloads }
  IN { base58_check_encode(hexlify(p), OtherVersion(version)) : p \in Payloads }
     \cup { BadChar(a) : a \in own }
     \cup { BadChecksum(a) : a \in own }
     \cup { Prefixed(p, version) : p \in Payloads }
     \cup SeqsUpTo({b58_digits[1], b58_digits[2], b58_digits[58], 48}, 2)

\* base58_check_encode(b, version) is called and returns a str.
Encode ==
  /\ pc = "encode"
  /\ prim' = [prim EXCEPT !.s = base58_check_encode(prim.b, prim.version)]
  /\ pc' = "decode"
  /\ UNCHANGED << input_vars, threads, build_vars, rpc_vars, outcome >>

\* base58_decode(s, version) is called and returns bytes or raises.
Decode ==
  /\ pc = "decode"
  /\ LET r == base58_decode(prim.s, prim.version)
     IN prim' = [prim EXCEPT !.err = r.err, !.ret = r.data]
  /\ pc' = "decoded"
  /\ UNCHANGED << input_vars, threads, build_vars, rpc_vars, outcome >>

\* Every variable of a build and of the rpc client at rest.
InitIdle ==
  /\ config = [TESTNET |-> FALSE, UNITTEST |-> FALSE]
  /\ tx_info = [ source |-> NoAddress, destination |-> NoAddress,
                 btc_amount |-> None, fee |-> 0, data |-> <<>> ]
  /\ multisig = "False"
  /\ unittest = FALSE
  /\ btc_amount = None
  /\ data_array = <<>>
  /\ total_btc_out = 0
  /\ listunspent = Unbound
  /\ inputs = <<>>
  /\ total_btc_in = 0
  /\ outputs = [destination_output |-> NoOutput, data_output |-> NoOutput,
                change_output |-> NoOutput]
  /\ s = <<>>
  /\ chunk_i = 0
  /\ unsigned_tx_hex = <<>>
  /\ request_session = "None"
  /\ stack = <<>>
  /\ retval = NullResult
  /\ calls = <<>>
  /\ served = NoServed
  /\ outcome = NoOutcome
  /\ threads = NoThreads

\* A caller either encodes a payload and decodes the result with the same
\* version, or decodes a str it got from elsewhere.
InitCodec ==
  /\ InitIdle
  /\ \E version \in Versions :
       \/ /\ pc = "encode"
          /\ \E p \in Payloads :
               prim = [NoPrim EXCEPT !.fn = "base58_check_encode",
                                     !.b = hexlify(p), !.version = version]
       \/ /\ pc = "decode"
          /\ \E str \in DecodeInputs(version) :
               prim = [NoPrim EXCEPT !.fn = "base58_decode", !.s = str,
                                     !.version = version]

NextCodec ==
  \/ Encode
  \/ Decode

SpecCodec == InitCodec /\ [][NextCodec]_vars

\* ------------------------------------------------------------------------
\* C21.  What base58_decode accepts.
\* ------------------------------------------------------------------------

\* The str decoded has a character outside the alphabet.
HasInvalidCharacter(str) == \E k \in DOMAIN str : str[k] \notin Range(b58_digits)

\* The str decoded is a well-formed address of the other network.
WrongNetwork(str, version) ==
  \E p \in Payloads : str = base58_check_encode(hexlify(p), OtherVersion(version))

\* C21 as stated: base58_decode raises InvalidBase58Error exactly when a
\* character is outside the alphabet; a str without such a character that is
\* an address of the other network raises VersionByteError; and a payload is
\* returned only for a str that is the Base58Check encoding of that payload
\* under the expected version, so that the version byte the str decodes to
\* is the expected one and its last four bytes are the checksum of
\* version || payload.
DecodeAcceptsOnlyEncodings ==
  pc = "decoded" =>
    /\ HasInvalidCharacter(prim.s) <=> prim.err = "InvalidBase58Error"
    /\ (~HasInvalidCharacter(prim.s) /\ WrongNetwork(prim.s, prim.version))
         => prim.err = "VersionByteError"
    /\ prim.err = "" =>
         prim.s = base58_check_encode(hexlify(prim.ret), prim.version)

\* ------------------------------------------------------------------------
\* C22.  Base58Check round trip.
\* ------------------------------------------------------------------------

\* C22: decoding what base58_check_encode returned for a payload and a
\* version, with that version expected, raises nothing and returns the
\* payload, for both version bytes and for payloads with leading zero bytes.
RoundTrip ==
  (pc = "decoded" /\ prim.fn = "base58_check_encode") =>
    /\ prim.err = ""
    /\ prim.ret = unhexlify(prim.b)

\* A payload with a leading zero byte went through both functions with the
\* zero version byte: the address starts with two '1'.
RoundTripWitness ==
  /\ pc = "decoded"
  /\ prim.fn = "base58_check_encode"
  /\ prim.version = <<0>>
  /\ Len(prim.ret) = HashLen
  /\ prim.ret[1] = 0
  /\ prim.ret[HashLen] # 0
  /\ SubSeq(prim.s, 1, 2) = <<b58_digits[1], b58_digits[1]>>
  /\ prim.s[3] # b58_digits[1]

\* ------------------------------------------------------------------------
\* Specification of var_int called on its own (lines 208-216), on ints of
\* any size.
\* ------------------------------------------------------------------------

\* A Python int i >= 0 beyond TLC's 32-bit range: its decimal limbs of four
\* digits, least significant first, without high zero limbs (0 is <<>>).
Limb == 10000

\* How far on each side of a threshold of var_int the ints passed reach.
Near == 5

RECURSIVE Long(_)
Long(i) == IF i = 0 THEN <<>> ELSE <<i % Limb>> \o Long(i \div Limb)

\* n + c for 0 <= c < Limb.
RECURSIVE LongAdd(_, _)
LongAdd(n, c) ==
  IF c = 0 THEN n
  ELSE IF n = <<>> THEN <<c>>
  ELSE <<(Head(n) + c) % Limb>> \o LongAdd(Tail(n), (Head(n) + c) \div Limb)

\* n * m + c for small m and c.
RECURSIVE LongMulAdd(_, _, _)
LongMulAdd(n, m, c) ==
  IF n = <<>>
    THEN IF c = 0 THEN <<>> ELSE <<c % Limb>> \o LongMulAdd(<<>>, m, c \div Limb)
    ELSE LET v == Head(n) * m + c
         IN <<v % Limb>> \o LongMulAdd(Tail(n), m, v \div Limb)

\* a < b and a <= b.
LongLess(a, b) ==
  IF Len(a) # Len(b) THEN Len(a) < Len(b)
  ELSE LET differ == { k \in DOMAIN a : a[k] # b[k] }
       IN /\ differ # {}
          /\ LET top == CHOOSE k \in differ : \A j \in differ : j <= k
             IN a[top] < b[top]

LongLeq(a, b) == a = b \/ LongLess(a, b)

\* divmod(n, 256), n given most significant limb first: <<quotient limbs,
\* most significant first, remainder>>.
RECURSIVE LongDivModBE(_, _)
LongDivModBE(be, r) ==
  IF be = <<>> THEN <<<<>>, r>>
  ELSE LET cur == r * Limb + Head(be)
           rest == LongDivModBE(Tail(be), cur % 256)
       IN <<(<<cur \div 256>>) \o rest[1], rest[2]>>

LongDivMod(n) ==
  LET qr == LongDivModBE(Reverse(n), 0)
  IN <<Normalise(Reverse(qr[1])), qr[2]>>

\* The k low bytes of n, least significant first, and what is left of n.
RECURSIVE LongBytes(_, _)
LongBytes(n, k) ==
  IF k = 0 THEN [bytes |-> <<>>, left |-> n]
  ELSE LET qr == LongDivMod(n)
           rest == LongBytes(qr[1], k - 1)
       IN [bytes |-> <<qr[2]>> \o rest.bytes, left |-> rest.left]

\* (i).to_bytes(k, byteorder='little') on an int of any size: OverflowError
\* ("int too big to convert") when i does not fit k bytes.
to_bytes_long(i, k) ==
  LET low == LongBytes(i, k)
  IN IF low.left # <<>> THEN [err |-> "OverflowError", data |-> <<>>]
     ELSE [err |-> "", data |-> low.bytes]

\* int.from_bytes(b, byteorder='little') as an int of any size.
RECURSIVE from_bytes_long(_)
from_bytes_long(b) ==
  IF b = <<>> THEN <<>> ELSE LongMulAdd(from_bytes_long(Tail(b)), 256, Head(b))

\* The literals 0xfd, 0xffff and 0xffffffff of var_int.
Hex_fd == Long(253)
Hex_ffff == from_bytes_long(<<255, 255>>)
Hex_ffffffff == from_bytes_long(<<255, 255, 255, 255>>)

\* A marker byte before the bytes of a to_bytes call that did not raise.
Marked(marker, r) == IF r.err # "" THEN r ELSE [r EXCEPT !.data = marker \o @]

\* var_int with its three tests made strict (i < 0xffff, i < 0xffffffff).
var_int_longStrict(i) ==
  IF LongLess(i, Hex_fd) THEN to_bytes_long(i, 1)
  ELSE IF LongLess(i, Hex_ffff) THEN Marked(<<253>>, to_bytes_long(i, 2))
  ELSE IF LongLess(i, Hex_ffffffff) THEN Marked(<<254>>, to_bytes_long(i, 4))
  ELSE Marked(<<255>>, to_bytes_long(i, 8))

\* def var_int (i) on an int of any size.  The result is a record: err is ""
\* and data the bytes returned, or err names the exception raised.
var_int_long(i) ==
  IF LongLess(i, Hex_fd) THEN to_bytes_long(i, 1)
  ELSE IF LongLeq(i, Hex_ffff) THEN Marked(<<253>>, to_bytes_long(i, 2))
  ELSE IF LongLeq(i, Hex_ffffffff) THEN Marked(<<254>>, to_bytes_long(i, 4))
  ELSE Marked(<<255>>, to_bytes_long(i, 8))

\* The ints passed: every int up to 0xfd + Near, and the ints from five
\* below to past each of 0xffff, 2^31 - 1, 0xffffffff and 2^64 - 1 (the last
\* ones do not fit eight bytes).
VarIntInputs ==
  { Long(i) : i \in 0..(253 + Near) }
  \cup { LongAdd(base, d) :
           base \in { <<5530, 6>>, <<3642, 4748, 21>>, <<7290, 9496, 42>>,
                      <<1610, 955, 737, 6744, 1844>> },
           d \in 0..(5 + Near) }

\* var_int(i) is called and returns bytes or raises.
VarInt ==
  /\ pc = "var_int"
  /\ LET r == var_int_long(prim.i)
     IN prim' = [prim EXCEPT !.err = r.err, !.ret = r.data]
  /\ pc' = "var_int_done"
  /\ UNCHANGED << input_vars, threads, build_vars, rpc_vars, outcome >>

InitVarInt ==
  /\ InitIdle
  /\ pc = "var_int"
  /\ \E i \in VarIntInputs : prim = [NoPrim EXCEPT !.fn = "var_int", !.i = i]

NextVarInt == VarInt

SpecVarInt == InitVarInt /\ [][NextVarInt]_vars

\* ------------------------------------------------------------------------
\* C23.  var_int.
\* ------------------------------------------------------------------------

\* The value a reader of the wire format takes from an encoding e that it
\* reads to its last byte: the first byte below 0xfd is the value, 0xfd,
\* 0xfe and 0xff announce 2, 4 and 8 little-endian bytes.
ReadVarIntLong(e) ==
  LET width == CASE e[1] < 253 -> 0 [] e[1] = 253 -> 2 [] e[1] = 254 -> 4
                 [] OTHER -> 8
  IN [ value |-> from_bytes_long(SubSeq(e, IF width = 0 THEN 1 ELSE 2,
                                        1 + width)),
       whole |-> Len(e) = 1 + width ]

\* An int of at most two limbs as a TLC integer.
LongToInt(n) == SumSeq([k \in DOMAIN n |-> IF k = 1 THEN n[k] ELSE n[k] * Limb])

\* C23: for 0 <= n < 2^64 var_int raises nothing; it returns the one byte n
\* when n < 253, 0xfd and 2 bytes when n <= 65535, 0xfe and 4 bytes when
\* n <= 4294967295, and 0xff and 8 bytes above; reading the encoding back
\* gives n and uses every byte.  Where n fits a TLC integer the bytes are
\* those of var_int as serialise() uses it.
VarIntLayout ==
  (pc = "var_int_done"
     /\ LongLeq(prim.i, <<1615, 955, 737, 6744, 1844>>)) =>
    /\ prim.err = ""
    /\ IF LongLess(prim.i, <<253>>)
         THEN Len(prim.ret) = 1 /\ Long(prim.ret[1]) = prim.i
       ELSE IF LongLeq(prim.i, <<5535, 6>>)
         THEN Len(prim.ret) = 3 /\ prim.ret[1] = 253
       ELSE IF LongLeq(prim.i, <<7295, 9496, 42>>)
         THEN Len(prim.ret) = 5 /\ prim.ret[1] = 254
       ELSE Len(prim.ret) = 9 /\ prim.ret[1] = 255
    /\ ReadVarIntLong(prim.ret).value = prim.i
    /\ ReadVarIntLong(prim.ret).whole
    /\ Len(prim.i) <= 2 => var_int(LongToInt(prim.i)) = prim.ret

\* var_int(0x100000000) returned 0xff and the eight bytes 00 00 00 00 01 00
\* 00 00.
VarIntWitness ==
  /\ pc = "var_int_done"
  /\ prim.i = <<7296, 9496, 42>>
  /\ prim.ret = <<255, 0, 0, 0, 0, 1, 0, 0, 0>>

\* ------------------------------------------------------------------------
\* Specification of serialise() called on its own (lines 228-325), with any
\* combination of its three optional outputs.
\* ------------------------------------------------------------------------

\* Lines 229-268: serialise() is entered with the inputs and outputs of its
\* caller and writes the version, the inputs, the number of outputs and the
\* destination output.
SerialiseCall ==
  /\ pc = "serialise_call"
  /\ s' = SerialiseHead(inputs, outputs.destination_output,
                        outputs.data_output, outputs.change_output)
            \o (IF outputs.destination_output.present
                  THEN AddressOutputBytes(outputs.destination_output, Version)
                  ELSE <<>>)
  /\ chunk_i' = 1
  /\ pc' = "data"
  /\ UNCHANGED << input_vars, prim, threads, btc_amount, data_array,
                  total_btc_out, listunspent, inputs, total_btc_in, outputs,
                  unsigned_tx_hex, rpc_vars, outcome >>

\* The inputs a caller passes are coins of the source, none or up to
\* MaxCoins of them.  The optional outputs it passes: None, a tuple with value zero, a
\* tuple with a positive value; for the data output also a tuple with an
\* empty chunk list, with one chunk, and with a full chunk and a chunk of one
\* byte.
AddressOutputs(address) ==
  { NoOutput, AddressOutput(address, 0), AddressOutput(address, REGULAR_DUST_SIZE) }

DataOutputs(m) ==
  { NoOutput, DataOutput(<<>>, DataValue(m)),
    DataOutput(<<Payload(5)>>, DataValue(m)),
    DataOutput(<<Payload(MULTISIG_CHUNK), Payload(1)>>, DataValue(m)) }

InitSerialise ==
  /\ config \in [TESTNET : BOOLEAN, UNITTEST : BOOLEAN]
  /\ tx_info = [ source |-> AddrA(config.TESTNET), destination |-> NoAddress,
                 btc_amount |-> None, fee |-> 0, data |-> <<>> ]
  /\ multisig \in MultisigValues
  /\ unittest = FALSE
  /\ pc = "serialise_call"
  /\ btc_amount = None
  /\ data_array = <<>>
  /\ total_btc_out = 0
  /\ listunspent = Unbound
  /\ inputs \in { l \in CoinLists(AddrA(config.TESTNET), AddrB(config.TESTNET)) :
                    Unspent(l, AddrA(config.TESTNET)) = l }
  /\ total_btc_in = 0
  /\ \E d \in AddressOutputs(AddrB(config.TESTNET)), e \in DataOutputs(multisig),
        c \in AddressOutputs(AddrA(config.TESTNET)) :
       outputs = [destination_output |-> d, data_output |-> e,
                  change_output |-> c]
  /\ s = <<>>
  /\ chunk_i = 0
  /\ unsigned_tx_hex = <<>>
  /\ request_session = "None"
  /\ stack = <<>>
  /\ retval = NullResult
  /\ calls = <<>>
  /\ served = NoServed
  /\ outcome = NoOutcome
  /\ threads = NoThreads
  /\ prim = NoPrim

NextSerialise ==
  \/ SerialiseCall
  \/ SerialiseData
  \/ SerialiseDataKey
  \/ SerialiseEnd
  \/ ConnectFail
  \/ ConnectResponse
  \/ ConnectExhausted
  \/ RpcClassify
  \/ RpcProbeReturn

SpecSerialise == InitSerialise /\ [][NextSerialise]_vars

\* ------------------------------------------------------------------------
\* C24.  Declared and emitted counts.
\* ------------------------------------------------------------------------

\* The number of output records between position pos of b and the four
\* bytes of the lock time that end b: each is a value of eight bytes, a
\* var_int and a script of that length.
RECURSIVE OutputRecords(_, _)
OutputRecords(b, pos) ==
  IF pos + 4 > Len(b) THEN 0
  ELSE LET len == ReadVarInt(b, pos + 8)
       IN 1 + OutputRecords(b, len.next + len.value)

\* The input count and the output count b declares: value, and the position
\* after the count.
DeclaredInputs(b) == ReadVarInt(b, 5)

DeclaredOutputs(b) ==
  ReadVarInt(b, ReadInputs(b, DeclaredInputs(b).next,
                           DeclaredInputs(b).value).next)

\* The outputs serialise() was given: destination 0/1, one per data chunk,
\* change 0/1.
GivenOutputs ==
  (IF outputs.destination_output.present THEN 1 ELSE 0)
  + (IF outputs.data_output.present
       THEN Len(outputs.data_output.data_array) ELSE 0)
  + (IF outputs.change_output.present THEN 1 ELSE 0)

\* C24: in the bytes serialise() returns, the input count declared is the
\* number of inputs given and that many input records follow it, each the
\* record of its input; the output count declared is the number of outputs
\* given and is the number of output records that follow it up to the lock
\* time, which is the last four bytes.
CountsMatch ==
  Built =>
    LET n_in == DeclaredInputs(s)
        ins == ReadInputs(s, n_in.next, n_in.value)
        n_out == DeclaredOutputs(s)
    IN /\ n_in.value = Len(inputs)
       /\ \A i \in DOMAIN inputs :
            /\ ins.items[i].txid = inputs[i].txid
            /\ ins.items[i].vout = inputs[i].vout
            /\ ins.items[i].script = inputs[i].scriptPubKey
       /\ n_out.value = GivenOutputs
       /\ OutputRecords(s, n_out.next) = n_out.value
       /\ ReadTx(s).locktime = <<0, 0, 0, 0>>

\* A destination and a change of value zero around a data output whose chunk
\* list is empty: two output records.
CountsWitness ==
  /\ Built
  /\ Len(inputs) = MaxCoins
  /\ outputs.destination_output.present
  /\ outputs.destination_output.value = 0
  /\ outputs.data_output.present
  /\ outputs.data_output.data_array = <<>>
  /\ outputs.change_output.present
  /\ outputs.change_output.value = 0
  /\ DeclaredOutputs(s).value = 2
  /\ OutputRecords(s, DeclaredOutputs(s).next) = 2

====
